---- MODULE Spec2Model ----
(***************************************************************************)
(* MQTTPlot: time-window navigation of the plot views.                     *)
(*                                                                         *)
(* The repository holds five implementations of the window controller:     *)
(*   "single"  SingleTopicPlot            static/js/admin/plot_single.js   *)
(*   "multi"   MultiTopicPlotPreview      unnamed/part_004 (plot_multi.js) *)
(*   "admin"   admin topic plot window    static/js/admin/admin_topic_plot.js *)
(*   "page"    unified plot page          static/plot_page.js              *)
(*   "public"  public slug plot           unnamed/part_005                 *)
(* Each is modelled from its own source; the variable view says which one  *)
(* a behaviour runs.                                                       *)
(*                                                                         *)
(* Time.  The sources count milliseconds.  The model counts units of       *)
(* 500 ms, so that every constant of the sources (1000 ms, 5000 ms, the    *)
(* presets and their halves) is a whole number of units.  Sample           *)
(* timestamps are whole seconds (even numbers of units).                   *)
(*                                                                         *)
(* A JavaScript value that may be null (a Date or null) is a sequence:     *)
(* <<>> is null and <<t>> is the Date t.                                   *)
(***************************************************************************)
EXTENDS Integers, Sequences, FiniteSets, TLC

VARIABLES
    view,      \* which implementation this behaviour runs
    samples,   \* server: timestamps of the stored samples of the plotted topic(s)
    now,       \* wall clock (new Date())
    left,      \* how many more samples arrive in this behaviour
    cap,       \* how many renders this behaviour has in flight at once
    st,        \* client state of SingleTopicPlot / MultiTopicPlotPreview
    at,        \* client state of the admin topic plot window
    pp,        \* client state of the unified plot page
    pub,       \* client state of the public slug plot
    fl,        \* renders in flight (awaiting a fetch), in the order they were started
    hist,      \* history: the last operation and the state it started from
    ind,       \* what the element liveIndicator shows (null: the page has none)
    cw         \* one call of a function on its own: inputs, position, result

vars == <<view, samples, now, left, cap, st, at, pp, pub, fl, hist, ind, cw>>

----------------------------------------------------------------------------
(* Constants of the sources, in units of 500 ms *)

\* 60 * 60 * 1000 ms
H == 7200

\* |tail - end| <= 5000
TOL == 10

\* Math.max(1000, end - start)
MIN_WINDOW_MS == 2

\* WINDOW_OPTIONS_MS: 2h 4h 8h 12h 1d 3d 5d 1w 2w 4w
WINDOW_OPTIONS_MS ==
    <<2 * H, 4 * H, 8 * H, 12 * H, 24 * H, 3 * 24 * H, 5 * 24 * H,
      7 * 24 * H, 14 * 24 * H, 28 * 24 * H>>

\* WINDOW_OPTIONS_MS[i] with the sources' 0-based index
W(i) == WINDOW_OPTIONS_MS[i + 1]

LastIdx == Len(WINDOW_OPTIONS_MS) - 1

Presets == {WINDOW_OPTIONS_MS[i] : i \in 1..Len(WINDOW_OPTIONS_MS)}

----------------------------------------------------------------------------
(* Helpers *)

Null == <<>>
Some(t) == <<t>>
Val(x) == x[1]

Abs(x) == IF x < 0 THEN -x ELSE x
Max2(a, b) == IF a >= b THEN a ELSE b
Min2(a, b) == IF a <= b THEN a ELSE b
MaxOf(S) == CHOOSE x \in S : \A y \in S : y <= x
MinOf(S) == CHOOSE x \in S : \A y \in S : x <= y

\* The loop of nearestWindowIndex: the first index with the least distance
\* (diff < bestDiff is strict, so an equal later distance does not replace it).
RECURSIVE NearestLoop(_, _, _, _)
NearestLoop(i, bestIdx, bestDiff, windowMs) ==
    IF i > LastIdx THEN bestIdx
    ELSE LET diff == Abs(W(i) - windowMs)
         IN  IF bestDiff < 0 \/ diff < bestDiff
             THEN NearestLoop(i + 1, i, diff, windowMs)
             ELSE NearestLoop(i + 1, bestIdx, bestDiff, windowMs)

\* nearestWindowIndex with diff <= bestDiff: of two presets equally near the
\* later one is kept
RECURSIVE NearestLoopLast(_, _, _, _)
NearestLoopLast(i, bestIdx, bestDiff, windowMs) ==
    IF i > LastIdx THEN bestIdx
    ELSE LET diff == Abs(W(i) - windowMs)
         IN  IF bestDiff < 0 \/ diff <= bestDiff
             THEN NearestLoopLast(i + 1, i, diff, windowMs)
             ELSE NearestLoopLast(i + 1, bestIdx, bestDiff, windowMs)

nearestWindowIndexLast(windowMs) == NearestLoopLast(0, 0, -1, windowMs)

\* bestDiff = Infinity is written -1 (no distance is negative)
nearestWindowIndex(windowMs) == NearestLoop(0, 0, -1, windowMs)

\* clampWindow with the shift of the start dropped in the end > max branch
clampWindowNoShift(start, end, min, max) ==
    LET s0 == IF start > end THEN end ELSE start
        e0 == IF start > end THEN start ELSE end
        windowMs == e0 - s0
    IN  IF (max - min) <= windowMs THEN [start |-> min, end |-> max]
        ELSE LET s1 == IF s0 < min THEN min ELSE s0
                 e1 == IF s0 < min THEN min + windowMs ELSE e0
                 e2 == IF e1 > max THEN max ELSE e1
             IN  [start |-> s1, end |-> e2]

\* clampWindow(start, end, min, max) of the three sources that define it
clampWindow(start, end, min, max) ==
    LET s0 == IF start > end THEN end ELSE start
        e0 == IF start > end THEN start ELSE end
        windowMs == e0 - s0
    IN  IF (max - min) <= windowMs THEN [start |-> min, end |-> max]
        ELSE LET s1 == IF s0 < min THEN min ELSE s0
                 e1 == IF s0 < min THEN min + windowMs ELSE e0
                 e2 == IF e1 > max THEN max ELSE e1
                 s2 == IF e1 > max THEN max - windowMs ELSE s1
                 s3 == IF s2 < min THEN min ELSE s2
                 e3 == IF e2 > max THEN max ELSE e2
             IN  [start |-> s3, end |-> e3]

----------------------------------------------------------------------------
(* The server: the stored samples of the plotted topic and the wall clock *)

\* the data sets a page may be opened on: one sample; a range shorter than
\* the smallest preset; a range between the first two presets; hourly
\* samples over ten hours; weekly samples over five weeks (longer than the
\* largest preset)
Weekly == {k * 7 * 24 * H : k \in 0..5}

DataSets ==
    { {0}, {0, H}, {0, 3 * H}, {k * H : k \in 0..10}, Weekly }

\* how long after the wall clock's last reading a new sample arrives:
\* at once, 1 s, 10 s
Deltas == {0, 2, 20}

\* samples that arrive while the page is open; none arrive in the behaviours
\* on the five weeks of data, whose windows are explored at every preset,
\* and one fewer in the behaviours with overlapping renders
MaxNew == 2

Overlap == {0, 3 * H}

Arrivals(S) == IF S = Weekly THEN 0 ELSE IF S = Overlap THEN MaxNew - 1 ELSE MaxNew

\* GET /api/bounds: min_ts and max_ts of the topic
ServerBounds == [min |-> MinOf(samples), max |-> MaxOf(samples)]

\* GET /api/data?start=..&end=..: the rows with start <= ts <= end
Rows(start, end) == {t \in samples : start <= t /\ t <= end}

NoClient == [x |-> 0]

NoHist == [op |-> "none"]

----------------------------------------------------------------------------
(* "single": SingleTopicPlot (plot_single.js), driven by the admin page    *)
(* (btnPlot, btnBack = slideWindow(-1.0), btnFwd = slideWindow(1.0),       *)
(* btnZoomIn, btnZoomOut, socket new_data).                                *)
(* "multi": MultiTopicPlotPreview (plot_multi.js), driven the same way.    *)
(*                                                                         *)
(* currentStart / currentEnd are mirrored in the inputs 'start' and 'end'  *)
(* by setInputsFromDates at every assignment, so reading the inputs back   *)
(* gives the stored window.  getBounds answers from boundsCache once the   *)
(* first plot has filled it, so a handler runs to its getData fetch        *)
(* without another task in between: each handler is one step.              *)

\* constructor; nav is what setNavEnabled last made of the four navigation
\* buttons (null: as the page's markup has them)
ST_New ==
    [topic |-> FALSE, start |-> Null, end |-> Null, b |-> Null,
     overallMax |-> Null, ready |-> FALSE, specMs |-> 0, nav |-> Null]

\* the history a handler of these two views leaves: the operation, the
\* state it started from, the window it asked clampWindow for, the
\* timestamp of the message
ST_Hist(op, req, ts) ==
    [op |-> op, pre |-> st, req |-> req, ts |-> ts]

NoReq == [start |-> 0, end |-> 0]

Single_Init ==
    /\ view = "single"
    /\ samples \in DataSets
    /\ now = MaxOf(samples)
    /\ left = Arrivals(samples)
    /\ cap = 0
    /\ st = ST_New
    /\ at = NoClient /\ pp = NoClient /\ pub = NoClient
    /\ fl = <<>>
    /\ hist = NoHist
    /\ ind = Null
    /\ cw = NoClient

ST_Frame == UNCHANGED <<view, cap, at, pp, pub, fl, ind, cw>>

\* getBounds(topic).catch(() => null): the cached bounds, or the answer of
\* /api/bounds, which fails while the topic has no samples and is then not
\* cached
ST_getBounds ==
    IF st.b # Null THEN st.b
    ELSE IF samples = {} THEN Null ELSE Some(ServerBounds)

\* the no-bounds branch of applyWindowSize, zoomIn, zoomOut and slideWindow:
\* setNavEnabled(false), showPlotStatus, return
ST_noBounds(op) ==
    /\ st' = [st EXCEPT !.nav = Some(FALSE)]
    /\ hist' = ST_Hist(op, NoReq, 0)

\* plotFromInputs: the first plot fetches the bounds and opens the default
\* window; a later one keeps the window of the inputs
ST_plotFromInputs ==
    /\ view = "single"
    /\ IF ST_getBounds = Null
       THEN /\ st' = [st EXCEPT !.topic = TRUE, !.start = Null, !.end = Null,
                                !.nav = Some(FALSE)]
            /\ hist' = ST_Hist("plot", NoReq, 0)
       ELSE LET b == Val(ST_getBounds)
                end1 == IF st.end = Null THEN b.max ELSE Val(st.end)
                start1 == end1 - W(1)
                c == clampWindow(start1, end1, b.min, b.max)
            IN  /\ st' = IF st.start = Null
                         THEN [st EXCEPT !.topic = TRUE, !.b = Some(b),
                                         !.start = Some(c.start),
                                         !.end = Some(c.end), !.nav = Some(TRUE)]
                         ELSE [st EXCEPT !.topic = TRUE, !.b = Some(b),
                                         !.end = Some(end1), !.nav = Some(TRUE)]
                /\ hist' = ST_Hist("plot", [start |-> start1, end |-> end1], 0)
    /\ UNCHANGED <<samples, now, left>>
    /\ ST_Frame

\* handleLiveMessage taking the default preset for the window length
ST_afterMessageDefaultSpan(ts) ==
    IF st.b = Null THEN st
    ELSE LET b == Val(st.b)
             tail == IF ts > b.max THEN ts ELSE b.max
         IN  [st EXCEPT !.b = Some([min |-> b.min, max |-> tail]),
                        !.end = IF st.end = Null THEN Null ELSE Some(tail),
                        !.start = IF st.end = Null THEN st.start
                                  ELSE Some(Max2(b.min, tail - W(1)))]

\* the window handleLiveMessage leaves for a message with timestamp ts
\* (plot_single.js: the start is clamped to the cached minimum)
ST_afterMessage(ts) ==
    IF st.b = Null THEN st
    ELSE LET b == Val(st.b)
             prevTail == b.max
             tail == IF ts > b.max THEN ts ELSE b.max
             st1 == [st EXCEPT !.b = Some([min |-> b.min, max |-> tail])]
         IN  IF st.end = Null THEN st1
             ELSE LET wasAtTail == Abs(prevTail - Val(st.end)) <= TOL
                      windowMs == IF st.start # Null
                                  THEN Max2(MIN_WINDOW_MS, Val(st.end) - Val(st.start))
                                  ELSE W(1)
                      start1 == tail - windowMs
                  IN  IF wasAtTail /\ tail >= prevTail
                      THEN [st1 EXCEPT !.end = Some(tail),
                                       !.start = Some(IF start1 < b.min THEN b.min
                                                      ELSE start1)]
                      ELSE st1

\* socket new_data for the plotted topic: the server stores a sample stamped
\* with its clock and the page handles the message
ST_handleLiveMessage(d) ==
    /\ view = "single"
    /\ st.topic
    /\ left > 0
    /\ now' = now + d
    /\ samples' = samples \cup {now'}
    /\ left' = left - 1
    /\ st' = ST_afterMessage(now')
    /\ hist' = ST_Hist("live", NoReq, now')
    /\ ST_Frame

\* the window applyWindowSize asks clampWindow for: newWindowMs around the
\* centre of the current window
CenterWindow(start, end, newWindowMs) ==
    LET centerMs == (start + end) \div 2
    IN  [start |-> centerMs - newWindowMs \div 2,
         end |-> centerMs + newWindowMs \div 2]

\* the current window of a handler of SingleTopicPlot: the stored one, or the
\* bounds where it is null
ST_cur ==
    [start |-> IF st.start # Null THEN Val(st.start) ELSE Val(ST_getBounds).min,
     end |-> IF st.end # Null THEN Val(st.end) ELSE Val(ST_getBounds).max]

\* applyWindowSize(newWindowMs), then plotFromInputs on the window just set
ST_applyWindowSize(op, newWindowMs) ==
    LET b == Val(ST_getBounds)
        req == CenterWindow(ST_cur.start, ST_cur.end, newWindowMs)
        c == clampWindow(req.start, req.end, b.min, b.max)
    IN  /\ st' = [st EXCEPT !.b = Some(b), !.start = Some(c.start),
                            !.end = Some(c.end), !.nav = Some(TRUE)]
        /\ hist' = ST_Hist(op, req, 0)

\* zoomIn going down two presets
ST_zoomInTwo ==
    /\ view = "single"
    /\ st.topic
    /\ IF ST_getBounds = Null
       THEN ST_noBounds("zoomIn")
       ELSE LET windowMs == Max2(MIN_WINDOW_MS, ST_cur.end - ST_cur.start)
                idx == nearestWindowIndex(windowMs)
                newIdx == Max2(0, idx - 2)
            IN  ST_applyWindowSize("zoomIn", W(newIdx))
    /\ UNCHANGED <<samples, now, left>>
    /\ ST_Frame

ST_zoomIn ==
    /\ view = "single"
    /\ st.topic
    /\ IF ST_getBounds = Null
       THEN ST_noBounds("zoomIn")
       ELSE LET windowMs == Max2(MIN_WINDOW_MS, ST_cur.end - ST_cur.start)
                idx == nearestWindowIndex(windowMs)
                newIdx == Max2(0, idx - 1)
            IN  ST_applyWindowSize("zoomIn", W(newIdx))
    /\ UNCHANGED <<samples, now, left>>
    /\ ST_Frame

ST_zoomOut ==
    /\ view = "single"
    /\ st.topic
    /\ IF ST_getBounds = Null
       THEN ST_noBounds("zoomOut")
       ELSE LET windowMs == Max2(MIN_WINDOW_MS, ST_cur.end - ST_cur.start)
                idx == nearestWindowIndex(windowMs)
                newIdx == Min2(LastIdx, idx + 1)
            IN  ST_applyWindowSize("zoomOut", W(newIdx))
    /\ UNCHANGED <<samples, now, left>>
    /\ ST_Frame

\* slideWindow(fraction), fraction = -1.0 (btnBack) or 1.0 (btnFwd)
ST_slideWindow(fraction) ==
    /\ view = "single"
    /\ st.topic
    /\ IF ST_getBounds = Null
       THEN ST_noBounds(IF fraction < 0 THEN "back" ELSE "fwd")
       ELSE LET b == Val(ST_getBounds)
                windowMs == Max2(MIN_WINDOW_MS, ST_cur.end - ST_cur.start)
                shiftMs == windowMs * fraction
                req == [start |-> ST_cur.start + shiftMs,
                        end |-> ST_cur.end + shiftMs]
                c == clampWindow(req.start, req.end, b.min, b.max)
            IN  /\ st' = [st EXCEPT !.b = Some(b), !.start = Some(c.start),
                                    !.end = Some(c.end), !.nav = Some(TRUE)]
                /\ hist' = ST_Hist(IF fraction < 0 THEN "back" ELSE "fwd", req, 0)
    /\ UNCHANGED <<samples, now, left>>
    /\ ST_Frame

Single_Next ==
    \/ ST_plotFromInputs
    \/ \E d \in Deltas : ST_handleLiveMessage(d)
    \/ ST_zoomIn
    \/ ST_zoomOut
    \/ ST_slideWindow(-1)
    \/ ST_slideWindow(1)

SpecSingle == Single_Init /\ [][Single_Next]_vars

----------------------------------------------------------------------------
(* "multi": MultiTopicPlotPreview (plot_multi.js).  The bounds of the      *)
(* plotted topics are merged by _getOverallBounds and every message moves  *)
(* the cached maximum of its topic and overallMax alike, so one series     *)
(* stands for the union.                                                   *)

\* spec.time.seconds * 1000 of the previewed spec: the 3600 s default of
\* plotFromSpec, the 4 h default of normalizeSpec, and 3 h
SpecWindows == {H, 4 * H, 3 * H}

Multi_Init ==
    /\ view = "multi"
    /\ samples \in DataSets
    /\ now = MaxOf(samples)
    /\ left = Arrivals(samples)
    /\ cap = 0
    /\ \E ms \in SpecWindows : st = [ST_New EXCEPT !.specMs = ms]
    /\ at = NoClient /\ pp = NoClient /\ pub = NoClient
    /\ fl = <<>>
    /\ hist = NoHist
    /\ ind = Null
    /\ cw = NoClient

\* the tail of plotFromSpec, from the bounds on: overallMax, the window of
\* the inputs (or the spec's window ending at the maximum), clampWindow, and
\* the plot is ready once a render drew rows
MT_plot(s0, b) ==
    LET end1 == IF s0.end # Null THEN Val(s0.end) ELSE b.max
        start1 == IF s0.start # Null THEN Val(s0.start) ELSE end1 - s0.specMs
        c == clampWindow(start1, end1, b.min, b.max)
    IN  [s0 EXCEPT !.topic = TRUE, !.b = Some(b), !.overallMax = Some(b.max),
                   !.start = Some(c.start), !.end = Some(c.end),
                   !.ready = s0.ready \/ Rows(c.start, c.end) # {},
                   !.nav = Some(TRUE)]

\* without bounds of any topic: setNavEnabled(false), overallMax = null,
\* no window
MT_plotFromSpec ==
    /\ view = "multi"
    /\ IF ST_getBounds = Null
       THEN /\ st' = [st EXCEPT !.topic = TRUE, !.overallMax = Null,
                                !.start = Null, !.end = Null, !.nav = Some(FALSE)]
            /\ hist' = ST_Hist("plot", NoReq, 0)
       ELSE LET b == Val(ST_getBounds)
                end1 == IF st.end # Null THEN Val(st.end) ELSE b.max
                start1 == IF st.start # Null THEN Val(st.start)
                          ELSE end1 - st.specMs
            IN  /\ st' = MT_plot(st, b)
                /\ hist' = ST_Hist("plot", [start |-> start1, end |-> end1], 0)
    /\ UNCHANGED <<samples, now, left>>
    /\ ST_Frame

\* the state handleLiveMessage leaves for a message with timestamp ts
\* (plot_multi.js: no clamp of the start)
MT_afterMessage(ts) ==
    IF ~st.topic \/ ~st.ready THEN st
    ELSE LET b == Val(st.b)
             prevOverallMax == st.overallMax
             bmax == IF ts > b.max THEN ts ELSE b.max
             omax == IF st.overallMax = Null \/ ts > Val(st.overallMax)
                     THEN ts ELSE Val(st.overallMax)
             st1 == [st EXCEPT !.b = Some([min |-> b.min, max |-> bmax]),
                               !.overallMax = Some(omax)]
         IN  IF st.end = Null \/ prevOverallMax = Null THEN st1
             ELSE LET wasAtTail == Abs(Val(prevOverallMax) - Val(st.end)) <= TOL
                      windowMs == IF st.start # Null
                                  THEN Max2(MIN_WINDOW_MS, Val(st.end) - Val(st.start))
                                  ELSE W(1)
                  IN  IF wasAtTail /\ omax >= Val(prevOverallMax)
                      THEN [st1 EXCEPT !.end = Some(omax),
                                       !.start = Some(omax - windowMs)]
                      ELSE st1

MT_handleLiveMessage(d) ==
    /\ view = "multi"
    /\ left > 0
    /\ now' = now + d
    /\ samples' = samples \cup {now'}
    /\ left' = left - 1
    /\ st' = MT_afterMessage(now')
    /\ hist' = ST_Hist("live", NoReq, now')
    /\ ST_Frame

\* applyWindowSize(newWindowMs), then plotFromSpec(currentSpec)
MT_applyWindowSize(op, newWindowMs) ==
    IF ST_getBounds = Null THEN ST_noBounds(op)
    ELSE LET b == Val(ST_getBounds)
             req == CenterWindow(ST_cur.start, ST_cur.end, newWindowMs)
             c == clampWindow(req.start, req.end, b.min, b.max)
         IN  /\ st' = MT_plot([st EXCEPT !.start = Some(c.start),
                                         !.end = Some(c.end)], b)
             /\ hist' = ST_Hist(op, req, 0)

\* the window length zoomIn and zoomOut of MultiTopicPlotPreview start from
MT_windowMs ==
    IF st.end # Null /\ st.start # Null
    THEN Max2(MIN_WINDOW_MS, Val(st.end) - Val(st.start))
    ELSE W(1)

MT_zoomIn ==
    /\ view = "multi"
    /\ st.topic
    /\ LET idx == nearestWindowIndex(MT_windowMs)
           newIdx == Max2(0, idx - 1)
       IN  MT_applyWindowSize("zoomIn", W(newIdx))
    /\ UNCHANGED <<samples, now, left>>
    /\ ST_Frame

MT_zoomOut ==
    /\ view = "multi"
    /\ st.topic
    /\ LET idx == nearestWindowIndex(MT_windowMs)
           newIdx == Min2(LastIdx, idx + 1)
       IN  MT_applyWindowSize("zoomOut", W(newIdx))
    /\ UNCHANGED <<samples, now, left>>
    /\ ST_Frame

MT_slideWindow(fraction) ==
    /\ view = "multi"
    /\ st.topic
    /\ IF ST_getBounds = Null
       THEN ST_noBounds(IF fraction < 0 THEN "back" ELSE "fwd")
       ELSE LET b == Val(ST_getBounds)
                windowMs == Max2(MIN_WINDOW_MS, ST_cur.end - ST_cur.start)
                shiftMs == windowMs * fraction
                req == [start |-> ST_cur.start + shiftMs,
                        end |-> ST_cur.end + shiftMs]
                c == clampWindow(req.start, req.end, b.min, b.max)
            IN  /\ st' = MT_plot([st EXCEPT !.start = Some(c.start),
                                            !.end = Some(c.end)], b)
                /\ hist' = ST_Hist(IF fraction < 0 THEN "back" ELSE "fwd", req, 0)
    /\ UNCHANGED <<samples, now, left>>
    /\ ST_Frame

Multi_Next ==
    \/ MT_plotFromSpec
    \/ \E d \in Deltas : MT_handleLiveMessage(d)
    \/ MT_zoomIn
    \/ MT_zoomOut
    \/ MT_slideWindow(-1)
    \/ MT_slideWindow(1)

SpecMulti == Multi_Init /\ [][Multi_Next]_vars

\* the two views whose handlers are single steps
Sync_Init == Single_Init \/ Multi_Init

Sync_Next == Single_Next \/ Multi_Next

SpecSync == Sync_Init /\ [][Sync_Next]_vars

\* the centre of a window these two views zoom about is a whole number of
\* units: no Date is built from a fraction of a unit
ST_WholeCentre ==
    (view \in {"single", "multi"} /\ st.start # Null /\ st.end # Null) =>
        (Val(st.start) + Val(st.end)) % 2 = 0

----------------------------------------------------------------------------
(* "admin": the topic window of admin_topic_plot.js.  A handler runs to    *)
(* its first await in one step; the renderPlot it awaits is an element of  *)
(* fl until the bounds answer (AT_getBounds) and its continuation          *)
(* (AT_renderPlot) have run.  Nothing after the second await of renderPlot *)
(* writes the window.                                                      *)

MaxFlight == 2

\* how many renders a behaviour over dataset S has in flight at once
Flights(S) == IF S = Overlap THEN MaxFlight ELSE 1

AT_New == [spanMs |-> W(1), start |-> Null, end |-> Null, tail |-> Null,
           followTail |-> TRUE]

\* a render in flight: the answer of getBounds once it is there, whether it
\* has run alone (no other handler and no arrival since it started) and, as
\* long as it has, the handler that awaits it and the state that handler found
Flight(op, pre, zin) ==
    [op |-> IF fl = <<>> THEN op ELSE "overlapped",
     pre |-> IF fl = <<>> THEN Some(pre) ELSE Null, b |-> Null,
     clean |-> fl = <<>>, zin |-> IF fl = <<>> THEN zin ELSE Null,
     ph |-> 1, start |-> 0, end |-> 0]

\* the last render that finished: its handler, whether it ran alone, and
\* the state a zoomIn found
Done(f) ==
    [op |-> f.op, clean |-> f.clean,
     pre |-> IF f.op = "zoomIn" THEN f.pre ELSE Null]

\* before any render has finished
NoDone == [op |-> "none", clean |-> FALSE, pre |-> Null]

\* a sample has arrived since the last render finished
Stale(h) == [h EXCEPT !.clean = FALSE, !.pre = Null]

Dirty(f) ==
    [i \in 1..Len(f) |-> [f[i] EXCEPT !.op = "overlapped", !.clean = FALSE, !.pre = Null,
                              !.zin = Null]]

Launch(op, pre, zin) == fl' = Append(Dirty(fl), Flight(op, pre, zin))

Without(f, i) == SubSeq(f, 1, i - 1) \o SubSeq(f, i + 1, Len(f))

\* the zoomIn whose render finished just before this handler, if it ran alone
LastZoomIn ==
    IF hist.op = "zoomIn" /\ hist.clean /\ fl = <<>> THEN hist.pre ELSE Null

Admin_Init ==
    /\ view = "admin"
    /\ samples \in DataSets
    /\ now = MaxOf(samples)
    /\ left = Arrivals(samples)
    /\ cap = Flights(samples)
    /\ at = AT_New
    /\ st = NoClient /\ pp = NoClient /\ pub = NoClient
    /\ fl = <<[op |-> "init", pre |-> Some(AT_New), b |-> Null, clean |-> TRUE,
               zin |-> Null, ph |-> 1, start |-> 0, end |-> 0]>>
    /\ hist = NoDone
    /\ ind = Null
    /\ cw = NoClient

\* formatSpan(ms): the number and the unit of the text
formatSpan(ms) ==
    IF ms % (7 * 24 * H) = 0 THEN <<ms \div (7 * 24 * H), "w">>
    ELSE IF ms % (24 * H) = 0 THEN <<ms \div (24 * H), "d">>
    ELSE IF ms % H = 0 THEN <<ms \div H, "h">>
    ELSE <<(ms + 1) \div 2, "s">>

\* the zoom controls as the markup has them, before any render
NoLabels ==
    [window |-> Null, zin |-> Null, zinDisabled |-> FALSE,
     zout |-> Null, zoutDisabled |-> FALSE]

\* both buttons labelled with the span shown
updateZoomButtonLabelsCurrent(spanMs) ==
    LET idx == nearestWindowIndex(spanMs)
    IN  [window |-> Some(formatSpan(W(idx))),
         zin |-> Some(formatSpan(W(idx))),
         zinDisabled |-> idx = 0,
         zout |-> Some(formatSpan(W(idx))),
         zoutDisabled |-> idx = LastIdx]

\* updateZoomButtonLabels: the window label, the two button texts and
\* whether the buttons are disabled
updateZoomButtonLabels(spanMs) ==
    LET idx == nearestWindowIndex(spanMs)
        zinTarget == W(Max2(0, idx - 1))
        zoutTarget == W(Min2(LastIdx, idx + 1))
    IN  [window |-> Some(formatSpan(W(idx))),
         zin |-> Some(formatSpan(zinTarget)),
         zinDisabled |-> idx = 0,
         zout |-> Some(formatSpan(zoutTarget)),
         zoutDisabled |-> idx = LastIdx]

AT_Others == UNCHANGED <<view, cap, st, pp, pub, cw>>

AT_Frame == AT_Others /\ UNCHANGED ind

\* the server answers /api/bounds of render i; while the topic has no
\* samples the request fails, b is null and renderPlot returns after
\* showError
AT_getBounds(i) ==
    /\ view = "admin"
    /\ i \in 1..Len(fl)
    /\ fl[i].ph = 1 /\ fl[i].b = Null
    /\ IF samples = {}
       THEN /\ fl' = Without(fl, i)
            /\ hist' = Done(fl[i])
       ELSE /\ fl' = [fl EXCEPT ![i].b = Some(ServerBounds)]
            /\ hist' = hist
    /\ UNCHANGED <<samples, now, left, at>>
    /\ AT_Frame

\* renderPlot from the answer of getBounds to the request of getData.  What
\* follows writes nothing but the element liveIndicator: on a page without
\* one the render is followed no further.
AT_renderPlot(i) ==
    /\ view = "admin"
    /\ i \in 1..Len(fl)
    /\ fl[i].ph = 1 /\ fl[i].b # Null
    /\ LET b == Val(fl[i].b)
           end1 == IF at.end = Null THEN b.max ELSE Val(at.end)
           start1 == IF at.start = Null THEN end1 - at.spanMs ELSE Val(at.start)
           end2 == IF at.followTail THEN b.max ELSE end1
           start2 == IF at.followTail THEN end2 - at.spanMs ELSE start1
           clamped == clampWindow(start2, end2, b.min, b.max)
       IN  /\ at' = [at EXCEPT !.tail = Some(b.max),
                               !.start = Some(clamped.start),
                               !.end = Some(clamped.end)]
           /\ IF ind = Null
              THEN /\ fl' = Without(fl, i)
                   /\ hist' = Done(fl[i])
              ELSE /\ fl' = [fl EXCEPT ![i].ph = 2, ![i].start = clamped.start,
                                       ![i].end = clamped.end]
                   /\ hist' = hist
    /\ UNCHANGED <<samples, now, left>>
    /\ AT_Frame

\* updateLiveIndicator(end, tail, followTail): isLive
AT_isLive(s) ==
    /\ s.followTail /\ s.tail # Null /\ s.end # Null
    /\ Abs(Val(s.tail) - Val(s.end)) <= TOL

\* the text of an indicator
Shown(isLive) == Some(IF isLive THEN "live" ELSE "off")

\* the server answers getData of render i and renderPlot runs to its end:
\* without rows it returns after showError, with rows it draws them and
\* sets the zoom controls (where they are modelled) and the indicator from
\* the state as it then is
AT_draw(i) ==
    /\ view = "admin"
    /\ i \in 1..Len(fl)
    /\ fl[i].ph = 2
    /\ ind' = IF Rows(fl[i].start, fl[i].end) = {} THEN ind
              ELSE Shown(AT_isLive(at))
    /\ cw' = IF cw = NoClient \/ Rows(fl[i].start, fl[i].end) = {} THEN cw
              ELSE updateZoomButtonLabels(at.spanMs)
    /\ fl' = Without(fl, i)
    /\ hist' = Done(fl[i])
    /\ UNCHANGED <<samples, now, left, at>>
    /\ UNCHANGED <<view, cap, st, pp, pub>>

\* btnBack; with no window yet, state.start.getTime() throws after the
\* assignment of followTail
AT_btnBack ==
    /\ view = "admin"
    /\ IF at.start = Null \/ at.end = Null
       THEN /\ at' = [at EXCEPT !.followTail = FALSE,
                                !.start = IF at.start = Null THEN Null
                                          ELSE Some(Val(at.start) - at.spanMs)]
            /\ fl' = Dirty(fl)
       ELSE /\ Len(fl) < cap
            /\ at' = [at EXCEPT !.followTail = FALSE,
                                !.start = Some(Val(at.start) - at.spanMs),
                                !.end = Some(Val(at.end) - at.spanMs)]
            /\ Launch("back", at, Null)
    /\ UNCHANGED <<samples, now, left, hist>>
    /\ AT_Frame

AT_btnFwd ==
    /\ view = "admin"
    /\ at.start # Null /\ at.end # Null
    /\ Len(fl) < cap
    /\ LET end1 == Val(at.end) + at.spanMs
       IN  at' = [at EXCEPT !.start = Some(Val(at.start) + at.spanMs),
                            !.end = Some(end1),
                            !.followTail = IF at.tail # Null /\ end1 >= Val(at.tail)
                                           THEN TRUE ELSE at.followTail]
    /\ Launch("fwd", at, Null)
    /\ UNCHANGED <<samples, now, left, hist>>
    /\ AT_Frame

\* btnZoomIn and btnZoomOut: return at the first and last preset; with no
\* end yet, state.end.getTime() throws after the assignment of spanMs
AT_zoom(op, newIdx, zin) ==
    IF at.end = Null
    THEN /\ at' = [at EXCEPT !.spanMs = W(newIdx)]
         /\ fl' = Dirty(fl)
    ELSE /\ Len(fl) < cap
         /\ at' = [at EXCEPT !.spanMs = W(newIdx),
                             !.start = Some(Val(at.end) - W(newIdx))]
         /\ Launch(op, at, zin)

AT_btnZoomIn ==
    /\ view = "admin"
    /\ LET idx == nearestWindowIndex(at.spanMs)
       IN  IF idx = 0
           THEN UNCHANGED <<at, fl>>
           ELSE AT_zoom("zoomIn", idx - 1, Null)
    /\ UNCHANGED <<samples, now, left, hist>>
    /\ AT_Frame

AT_btnZoomOut ==
    /\ view = "admin"
    /\ LET idx == nearestWindowIndex(at.spanMs)
       IN  IF idx >= LastIdx
           THEN UNCHANGED <<at, fl>>
           ELSE AT_zoom("zoomOut", idx + 1, LastZoomIn)
    /\ UNCHANGED <<samples, now, left, hist>>
    /\ AT_Frame

\* the new_data handlers re-rendering whether or not the window follows
AT_new_dataAlways(d) ==
    /\ view = "admin"
    /\ left > 0
    /\ Len(fl) < cap
    /\ now' = now + d
    /\ samples' = samples \cup {now'}
    /\ left' = left - 1
    /\ at' = [at EXCEPT !.end = Null, !.start = Null]
    /\ Launch("live", at, Null)
    /\ hist' = Stale(hist)
    /\ AT_Frame

\* a sample is stored and its new_data event is handled
AT_new_data(d) ==
    /\ view = "admin"
    /\ left > 0
    /\ at.followTail => Len(fl) < cap
    /\ now' = now + d
    /\ samples' = samples \cup {now'}
    /\ left' = left - 1
    /\ IF at.followTail
       THEN /\ at' = [at EXCEPT !.end = Null, !.start = Null]
            /\ Launch("live", at, Null)
       ELSE /\ at' = at
            /\ fl' = Dirty(fl)
    /\ hist' = Stale(hist)
    /\ AT_Frame

Admin_Next ==
    \/ \E i \in 1..MaxFlight : AT_getBounds(i)
    \/ \E i \in 1..MaxFlight : AT_renderPlot(i)
    \/ AT_btnBack
    \/ AT_btnFwd
    \/ AT_btnZoomIn
    \/ AT_btnZoomOut
    \/ \E d \in Deltas : AT_new_data(d)

SpecAdmin == Admin_Init /\ [][Admin_Next]_vars

----------------------------------------------------------------------------
(* "page": the unified plot page, plot_page.js.  render awaits loadBounds  *)
(* and then loadSeries; a render in flight is in one of four phases:       *)
(* 1 awaiting the bounds, 2 bounds answered, 3 awaiting the rows of its    *)
(* window, 4 rows answered.  main wires the controls only after the first  *)
(* render has finished.                                                    *)

\* spec.time.seconds * 1000 of the page's spec: none, 3 h, and the 4 h of a
\* topic page
PageSpecWindows == {0, 3 * H, 4 * H}

PP_New(specMs) ==
    [spanMs |-> IF specMs > 0 THEN W(nearestWindowIndex(specMs)) ELSE W(1),
     start |-> Null, end |-> Null, followTail |-> TRUE, wired |-> FALSE]

PP_Flight(op, pre, zin) ==
    [op |-> IF fl = <<>> THEN op ELSE "overlapped",
     pre |-> IF fl = <<>> THEN Some(pre) ELSE Null,
     clean |-> fl = <<>>, zin |-> IF fl = <<>> THEN zin ELSE Null,
     ph |-> 1, b |-> Null, start |-> 0, end |-> 0, tail |-> Null]

PP_rerender(op, pre, zin) == fl' = Append(Dirty(fl), PP_Flight(op, pre, zin))

Page_Init ==
    /\ view = "page"
    /\ samples \in DataSets
    /\ now = MaxOf(samples)
    /\ left = Arrivals(samples)
    /\ cap = Flights(samples)
    /\ \E ms \in PageSpecWindows :
          /\ pp = PP_New(ms)
          /\ fl = <<[op |-> "init", pre |-> Some(PP_New(ms)), clean |-> TRUE,
                     zin |-> Null, ph |-> 1, b |-> Null, start |-> 0, end |-> 0,
                     tail |-> Null]>>
    /\ st = NoClient /\ at = NoClient /\ pub = NoClient
    /\ hist = NoDone
    /\ ind = Null
    /\ cw = NoClient

PP_Others == UNCHANGED <<view, cap, st, at, pub, cw>>

PP_Frame == PP_Others /\ UNCHANGED ind

\* the server answers the bounds requests of render i
PP_loadBounds(i) ==
    /\ view = "page"
    /\ i \in 1..Len(fl)
    /\ fl[i].ph = 1
    /\ fl' = [fl EXCEPT ![i].ph = 2,
                        ![i].b = IF samples = {} THEN Null ELSE Some(ServerBounds)]
    /\ UNCHANGED <<samples, now, left, pp, hist>>
    /\ PP_Frame

\* render from the answer of loadBounds to the request of loadSeries
PP_renderWindow(i) ==
    /\ view = "page"
    /\ i \in 1..Len(fl)
    /\ fl[i].ph = 2
    /\ LET b == fl[i].b
           latest == IF b # Null THEN Val(b).max ELSE now
           end0 == IF pp.followTail THEN latest
                   ELSE IF pp.end # Null THEN Val(pp.end) ELSE latest
           end1 == IF end0 > latest THEN latest ELSE end0
           start1 == end1 - pp.spanMs
           low == b # Null /\ start1 < Val(b).min
           start2 == IF low THEN Val(b).min ELSE start1
           end2 == IF low THEN Min2(start2 + pp.spanMs, latest) ELSE end1
       IN  /\ pp' = [pp EXCEPT !.start = Some(start2), !.end = Some(end2)]
           /\ fl' = [fl EXCEPT ![i].ph = 3, ![i].start = start2, ![i].end = end2]
    /\ UNCHANGED <<samples, now, left, hist>>
    /\ PP_Frame

\* the server answers the data requests of render i
PP_loadSeries(i) ==
    /\ view = "page"
    /\ i \in 1..Len(fl)
    /\ fl[i].ph = 3
    /\ LET pts == Rows(fl[i].start, fl[i].end)
       IN  fl' = [fl EXCEPT ![i].ph = 4,
                            ![i].tail = IF pts = {} THEN Null ELSE Some(MaxOf(pts))]
    /\ UNCHANGED <<samples, now, left, pp, hist>>
    /\ PP_Frame

\* render from the answer of loadSeries on
PP_renderTail(i) ==
    /\ view = "page"
    /\ i \in 1..Len(fl)
    /\ fl[i].ph = 4
    /\ pp' = IF pp.followTail /\ fl[i].tail # Null
             THEN [pp EXCEPT !.end = fl[i].tail,
                             !.start = Some(Val(fl[i].tail) - pp.spanMs),
                             !.wired = TRUE]
             ELSE [pp EXCEPT !.wired = TRUE]
    /\ hist' = Done(fl[i])
    /\ fl' = Without(fl, i)
    /\ UNCHANGED <<samples, now, left>>
    /\ PP_Frame

\* Math.round(state.spanMs * 0.5)
HalfSpan(spanMs) == (spanMs + 1) \div 2

\* while the topics have no samples nothing stops the page's window on its
\* way back: it is followed this far (6 h) before the clock's origin
BackLimit == 43200

\* back and fwd taking the shift for the new span
PP_slideDrift(op, sign) ==
    /\ view = "page"
    /\ pp.wired
    /\ Len(fl) < cap
    /\ LET end == IF pp.end # Null THEN Val(pp.end) ELSE now
       IN  pp' = [pp EXCEPT !.followTail = FALSE,
                            !.spanMs = HalfSpan(pp.spanMs),
                            !.end = Some(end + sign * HalfSpan(pp.spanMs))]
    /\ PP_rerender(op, pp, Null)
    /\ UNCHANGED <<samples, now, left, hist>>
    /\ PP_Frame

PP_slide(op, sign) ==
    /\ view = "page"
    /\ pp.wired
    /\ Len(fl) < cap
    /\ LET end == IF pp.end # Null THEN Val(pp.end) ELSE now
       IN  /\ samples = {} => end + sign * HalfSpan(pp.spanMs) >= -BackLimit
           /\ pp' = [pp EXCEPT !.followTail = FALSE,
                               !.end = Some(end + sign * HalfSpan(pp.spanMs))]
    /\ PP_rerender(op, pp, Null)
    /\ UNCHANGED <<samples, now, left, hist>>
    /\ PP_Frame

PP_back == PP_slide("back", -1)

PP_fwd == PP_slide("fwd", 1)

PP_zin ==
    /\ view = "page"
    /\ pp.wired
    /\ Len(fl) < cap
    /\ LET idx == nearestWindowIndex(pp.spanMs)
           newIdx == Max2(0, idx - 1)
       IN  pp' = [pp EXCEPT !.spanMs = W(newIdx)]
    /\ PP_rerender("zoomIn", pp, Null)
    /\ UNCHANGED <<samples, now, left, hist>>
    /\ PP_Frame

PP_zout ==
    /\ view = "page"
    /\ pp.wired
    /\ Len(fl) < cap
    /\ LET idx == nearestWindowIndex(pp.spanMs)
           newIdx == Min2(LastIdx, idx + 1)
       IN  pp' = [pp EXCEPT !.spanMs = W(newIdx)]
    /\ PP_rerender("zoomOut", pp, LastZoomIn)
    /\ UNCHANGED <<samples, now, left, hist>>
    /\ PP_Frame

\* the Live button
PP_live ==
    /\ view = "page"
    /\ pp.wired
    /\ Len(fl) < cap
    /\ pp' = [pp EXCEPT !.followTail = ~pp.followTail]
    /\ ind' = IF ind = Null THEN Null ELSE Shown(pp'.followTail)
    /\ PP_rerender("toggle", pp, Null)
    /\ UNCHANGED <<samples, now, left, hist>>
    /\ PP_Others

\* a sample is stored and its new_data event is handled
PP_new_data(d) ==
    /\ view = "page"
    /\ left > 0
    /\ (pp.wired /\ pp.followTail) => Len(fl) < cap
    /\ now' = now + d
    /\ samples' = samples \cup {now'}
    /\ left' = left - 1
    /\ IF pp.wired /\ pp.followTail
       THEN PP_rerender("live", pp, Null)
       ELSE fl' = Dirty(fl)
    /\ hist' = Stale(hist)
    /\ UNCHANGED pp
    /\ PP_Frame

\* the 15 s interval
PP_poll ==
    /\ view = "page"
    /\ pp.wired
    /\ pp.followTail
    /\ Len(fl) < cap
    /\ PP_rerender("poll", pp, Null)
    /\ UNCHANGED <<samples, now, left, pp, hist>>
    /\ PP_Frame

Page_Next ==
    \/ \E i \in 1..MaxFlight : PP_loadBounds(i)
    \/ \E i \in 1..MaxFlight : PP_renderWindow(i)
    \/ \E i \in 1..MaxFlight : PP_loadSeries(i)
    \/ \E i \in 1..MaxFlight : PP_renderTail(i)
    \/ PP_back
    \/ PP_fwd
    \/ PP_zin
    \/ PP_zout
    \/ PP_live
    \/ \E d \in Deltas : PP_new_data(d)
    \/ PP_poll

SpecPage == Page_Init /\ [][Page_Next]_vars

----------------------------------------------------------------------------
(* "public": the public slug plot (public_plot.js).  renderOnce awaits the *)
(* plot spec (phase 1), then the rows of the requested window (phase 2),   *)
(* then Plotly.react (phase 3); the handler that awaited it then stores    *)
(* the result.  The first render is followed by loadBoundsForPlot          *)
(* (phase 4), after which the buttons and the refresh timer exist.         *)

\* how long after the newest sample the page is opened: at once, 6 h
Lags == {0, 6 * H}

PUB_New(specMs) ==
    [spanMs |-> Null, start |-> Null, end |-> Null, tail |-> Null,
     minTs |-> Null, maxTs |-> Null, followTail |-> TRUE,
     specMs |-> specMs, wired |-> FALSE]

PUB_Flight(op, pre, zin) ==
    [op |-> IF fl = <<>> THEN op ELSE "overlapped",
     pre |-> IF fl = <<>> THEN Some(pre) ELSE Null,
     clean |-> fl = <<>>, zin |-> IF fl = <<>> THEN zin ELSE Null,
     fwd |-> op = "fwd", ph |-> 1, start |-> 0, end |-> 0, tail |-> Null]

PUB_renderOnce(op, pre, zin) == fl' = Append(Dirty(fl), PUB_Flight(op, pre, zin))

\* windowState.spanMs || WINDOW_OPTIONS_MS[1]
PUB_span == IF pub.spanMs = Null THEN W(1) ELSE Val(pub.spanMs)

\* spec.time.seconds * 1000 of the public plot's spec: none, 3 h
PublicSpecWindows == {0, 3 * H}

\* the page is opened lag after the newest sample; samples arrive only in the
\* behaviours that open it at once, and its renders do not overlap
Public_Init ==
    /\ view = "public"
    /\ samples \in DataSets
    /\ \E lag \in Lags :
          /\ now = MaxOf(samples) + lag
          /\ left = IF lag = 0 THEN Arrivals(samples) ELSE 0
    /\ cap = 1
    /\ \E ms \in PublicSpecWindows :
          /\ pub = PUB_New(ms)
          /\ fl = <<[op |-> "init", pre |-> Some(PUB_New(ms)), clean |-> TRUE,
                     zin |-> Null, fwd |-> FALSE, ph |-> 1, start |-> 0,
                     end |-> 0, tail |-> Null]>>
    /\ st = NoClient /\ at = NoClient /\ pp = NoClient
    /\ hist = NoDone
    /\ ind = Null
    /\ cw = NoClient

PUB_Frame == UNCHANGED <<view, cap, st, at, pp, ind, cw>>

\* renderOnce from the answer of the spec fetch to the data request of
\* loadSeriesForPlot
PUB_request(i) ==
    /\ view = "public"
    /\ i \in 1..Len(fl)
    /\ fl[i].ph = 1
    /\ LET spanMs == IF pub.spanMs # Null THEN Val(pub.spanMs)
                     ELSE IF pub.specMs > 0 THEN W(nearestWindowIndex(pub.specMs))
                     ELSE W(1)
           end0 == IF pub.followTail THEN now
                   ELSE IF pub.end # Null THEN Val(pub.end) ELSE now
           requestedEnd == IF end0 > now THEN now ELSE end0
           requestedStart == requestedEnd - spanMs
       IN  /\ pub' = [pub EXCEPT !.spanMs = Some(spanMs)]
           /\ fl' = [fl EXCEPT ![i].ph = 2, ![i].start = requestedStart,
                               ![i].end = requestedEnd]
    /\ UNCHANGED <<samples, now, left, hist>>
    /\ PUB_Frame

\* the rows arrive: loadSeriesForPlot from the answer to its return, and
\* renderOnce to Plotly.react
PUB_loadSeries(i) ==
    /\ view = "public"
    /\ i \in 1..Len(fl)
    /\ fl[i].ph = 2
    /\ LET pts == Rows(fl[i].start, fl[i].end)
           tail == IF pts = {} THEN Null ELSE Some(MaxOf(pts))
           end0 == IF pub.followTail /\ tail # Null THEN Val(tail) ELSE fl[i].end
           end == IF ~pub.followTail /\ tail # Null /\ end0 > Val(tail)
                  THEN Val(tail) ELSE end0
           start == end - Val(pub.spanMs)
       IN  fl' = [fl EXCEPT ![i].ph = 3, ![i].start = start, ![i].end = end,
                            ![i].tail = tail]
    /\ UNCHANGED <<samples, now, left, pub, hist>>
    /\ PUB_Frame

\* renderOnce sets the zoom controls (where they are modelled) and
\* returns, and the handler that awaited it stores the result;
\* btnFwd also pins the window when it ends within 5 s of the tail
PUB_store(i) ==
    /\ view = "public"
    /\ i \in 1..Len(fl)
    /\ fl[i].ph = 3
    /\ LET r == fl[i]
           pinned == r.fwd /\ r.tail # Null /\ Abs(Val(r.tail) - r.end) <= TOL
       IN  pub' = [pub EXCEPT !.start = Some(r.start), !.end = Some(r.end),
                              !.tail = r.tail,
                              !.followTail = IF pinned THEN TRUE ELSE pub.followTail]
    /\ IF pub.wired
       THEN /\ fl' = Without(fl, i)
            /\ hist' = Done(fl[i])
       ELSE /\ fl' = [fl EXCEPT ![i].ph = 4]
            /\ hist' = hist
    /\ cw' = IF cw = NoClient THEN cw ELSE updateZoomButtonLabels(PUB_span)
    /\ UNCHANGED <<samples, now, left>>
    /\ UNCHANGED <<view, cap, st, at, pp, ind>>

\* loadBoundsForPlot answers; the listeners and the refresh timer are added
PUB_loadBounds(i) ==
    /\ view = "public"
    /\ i \in 1..Len(fl)
    /\ fl[i].ph = 4
    /\ pub' = [pub EXCEPT !.minTs = IF samples = {} THEN Null ELSE Some(ServerBounds.min),
                          !.maxTs = IF samples = {} THEN Null ELSE Some(ServerBounds.max),
                          !.wired = TRUE]
    /\ fl' = Without(fl, i)
    /\ hist' = Done(fl[i])
    /\ UNCHANGED <<samples, now, left>>
    /\ PUB_Frame

PUB_btnBack ==
    /\ view = "public"
    /\ pub.wired
    /\ LET spanMs == PUB_span
           small == pub.minTs # Null /\ pub.tail # Null
                    /\ Val(pub.tail) - Val(pub.minTs) <= spanMs + 2
           earliest == pub.minTs # Null /\ pub.start # Null
                       /\ Val(pub.start) <= Val(pub.minTs) + 2
           end1 == (IF pub.end # Null THEN Val(pub.end) ELSE now) - spanMs
           start1 == end1 - spanMs
           moved == [pub EXCEPT !.followTail = FALSE, !.end = Some(end1),
                                !.start = Some(start1)]
       IN  IF small \/ earliest
           THEN UNCHANGED <<pub, fl>>
           ELSE IF pub.minTs # Null /\ start1 < Val(pub.minTs)
           THEN pub' = moved /\ fl' = Dirty(fl)
           ELSE /\ Len(fl) < cap
                /\ pub' = moved
                /\ PUB_renderOnce("back", pub, Null)
    /\ UNCHANGED <<samples, now, left, hist>>
    /\ PUB_Frame

PUB_btnFwd ==
    /\ view = "public"
    /\ pub.wired
    /\ Len(fl) < cap
    /\ LET spanMs == PUB_span
           end0 == (IF pub.end # Null THEN Val(pub.end) ELSE now) + spanMs
           past == pub.tail # Null /\ end0 > Val(pub.tail)
           proposedEnd == IF past THEN Val(pub.tail) ELSE end0
       IN  pub' = [pub EXCEPT !.followTail = IF past THEN TRUE ELSE pub.followTail,
                              !.end = Some(proposedEnd),
                              !.start = Some(proposedEnd - spanMs)]
    /\ PUB_renderOnce("fwd", pub, Null)
    /\ UNCHANGED <<samples, now, left, hist>>
    /\ PUB_Frame

PUB_zoom(op, newIdx, zin) ==
    /\ view = "public"
    /\ pub.wired
    /\ Len(fl) < cap
    /\ pub' = [pub EXCEPT !.spanMs = Some(W(newIdx)),
                          !.start = Some(Val(pub.end) - W(newIdx))]
    /\ PUB_renderOnce(op, pub, zin)
    /\ UNCHANGED <<samples, now, left, hist>>
    /\ PUB_Frame

PUB_btnZoomIn ==
    PUB_zoom("zoomIn", Max2(0, nearestWindowIndex(PUB_span) - 1), Null)

PUB_btnZoomOut ==
    PUB_zoom("zoomOut", Min2(LastIdx, nearestWindowIndex(PUB_span) + 1), LastZoomIn)

\* the refresh interval of a spec with refresh.enabled
PUB_refresh ==
    /\ view = "public"
    /\ pub.wired
    /\ Len(fl) < cap
    /\ PUB_renderOnce("refresh", pub, Null)
    /\ UNCHANGED <<samples, now, left, pub, hist>>
    /\ PUB_Frame

\* a sample is stored; the page hears nothing of it
PUB_sample(d) ==
    /\ view = "public"
    /\ left > 0
    /\ now' = now + d
    /\ samples' = samples \cup {now'}
    /\ left' = left - 1
    /\ fl' = Dirty(fl)
    /\ hist' = Stale(hist)
    /\ UNCHANGED pub
    /\ PUB_Frame

Public_Next ==
    \/ \E i \in 1..MaxFlight : PUB_request(i)
    \/ \E i \in 1..MaxFlight : PUB_loadSeries(i)
    \/ \E i \in 1..MaxFlight : PUB_store(i)
    \/ \E i \in 1..MaxFlight : PUB_loadBounds(i)
    \/ PUB_btnBack
    \/ PUB_btnFwd
    \/ PUB_btnZoomIn
    \/ PUB_btnZoomOut
    \/ PUB_refresh
    \/ \E d \in Deltas : PUB_sample(d)

SpecPublic == Public_Init /\ [][Public_Next]_vars

----------------------------------------------------------------------------
(* The four views that hear of new samples over the socket, one per        *)
(* behaviour                                                               *)

Socket_Init == Single_Init \/ Multi_Init \/ Admin_Init \/ Page_Init

Socket_Next == Single_Next \/ Multi_Next \/ Admin_Next \/ Page_Next

SpecSocket == Socket_Init /\ [][Socket_Next]_vars

----------------------------------------------------------------------------
(* The same four views opened on a topic that has no samples yet: the      *)
(* bounds requests fail until the first sample is stored.  X_Client is the *)
(* client of view X as its page has constructed it.                        *)

Single_Client ==
    /\ view = "single"
    /\ st = ST_New
    /\ at = NoClient /\ pp = NoClient
    /\ fl = <<>>
    /\ hist = NoHist

Multi_Client ==
    /\ view = "multi"
    /\ \E ms \in SpecWindows : st = [ST_New EXCEPT !.specMs = ms]
    /\ at = NoClient /\ pp = NoClient
    /\ fl = <<>>
    /\ hist = NoHist

Admin_Client ==
    /\ view = "admin"
    /\ at = AT_New
    /\ st = NoClient /\ pp = NoClient
    /\ fl = <<[op |-> "init", pre |-> Some(AT_New), b |-> Null, clean |-> TRUE,
               zin |-> Null, ph |-> 1, start |-> 0, end |-> 0]>>
    /\ hist = NoDone

Page_Client ==
    /\ view = "page"
    /\ \E ms \in PageSpecWindows :
          /\ pp = PP_New(ms)
          /\ fl = <<[op |-> "init", pre |-> Some(PP_New(ms)), clean |-> TRUE,
                     zin |-> Null, ph |-> 1, b |-> Null, start |-> 0, end |-> 0,
                     tail |-> Null]>>
    /\ st = NoClient /\ at = NoClient
    /\ hist = NoDone

NoData_Init ==
    /\ samples = {}
    /\ now = 0
    /\ left = MaxNew
    /\ cap = 1
    /\ pub = NoClient
    /\ ind = Null
    /\ cw = NoClient
    /\ (Single_Client \/ Multi_Client \/ Admin_Client \/ Page_Client)

SpecNoData == NoData_Init /\ [][Socket_Next]_vars

----------------------------------------------------------------------------
(* The admin topic window and the page on pages that have the element      *)
(* liveIndicator.  The admin window's indicator is as the markup has it    *)
(* until the first render has drawn rows; main of the page calls           *)
(* setLive(true) before its first render.                                  *)

Live_Init ==
    /\ samples \in DataSets
    /\ now = MaxOf(samples)
    /\ left = Arrivals(samples)
    /\ cap = 1
    /\ pub = NoClient
    /\ cw = NoClient
    /\ \/ Admin_Client /\ ind = Some("markup")
       \/ Page_Client /\ ind = Shown(TRUE)

Live_Next ==
    \/ Admin_Next
    \/ \E i \in 1..MaxFlight : AT_draw(i)
    \/ Page_Next

SpecLive == Live_Init /\ [][Live_Next]_vars

\* the public plot as it is opened, at the newest sample
Public_Client ==
    /\ view = "public"
    /\ \E ms \in PublicSpecWindows :
          /\ pub = PUB_New(ms)
          /\ fl = <<[op |-> "init", pre |-> Some(PUB_New(ms)), clean |-> TRUE,
                     zin |-> Null, fwd |-> FALSE, ph |-> 1, start |-> 0,
                     end |-> 0, tail |-> Null]>>
    /\ st = NoClient /\ at = NoClient /\ pp = NoClient
    /\ hist = NoDone

----------------------------------------------------------------------------
(* SpecZoom: the admin topic window and the public plot with their zoom    *)
(* controls; cw holds the window label, the texts of the two zoom buttons  *)
(* and whether each is disabled.  The data do not change.                 *)

Zoom_Init ==
    /\ samples \in DataSets \ {Weekly}
    /\ now = MaxOf(samples)
    /\ left = 0
    /\ cw = NoLabels
    /\ \/ /\ Admin_Client
          /\ cap = Flights(samples)
          /\ pub = NoClient
          /\ ind = Some("markup")
       \/ /\ Public_Client
          /\ cap = 1
          /\ ind = Null

Zoom_Next ==
    \/ \E i \in 1..MaxFlight : AT_getBounds(i)
    \/ \E i \in 1..MaxFlight : AT_renderPlot(i)
    \/ \E i \in 1..MaxFlight : AT_draw(i)
    \/ AT_btnBack
    \/ AT_btnFwd
    \/ AT_btnZoomIn
    \/ AT_btnZoomOut
    \/ \E i \in 1..MaxFlight : PUB_request(i)
    \/ \E i \in 1..MaxFlight : PUB_loadSeries(i)
    \/ \E i \in 1..MaxFlight : PUB_store(i)
    \/ \E i \in 1..MaxFlight : PUB_loadBounds(i)
    \/ PUB_btnBack
    \/ PUB_btnFwd
    \/ PUB_btnZoomIn
    \/ PUB_btnZoomOut
    \/ PUB_refresh

SpecZoom == Zoom_Init /\ [][Zoom_Next]_vars

----------------------------------------------------------------------------
(* SpecNav: Back and Forward on data that do not change.  No sample        *)
(* arrives, so the socket handlers, the poll and the refresh timer find    *)
(* nothing new and are left out; the span stays the one the page opened    *)
(* with.  The answers a render awaits do arrive (weak fairness of the      *)
(* render steps); what the user clicks is free.                            *)

Nav_Init ==
    /\ samples \in DataSets
    /\ now = MaxOf(samples)
    /\ left = 0
    /\ cap = 1
    /\ ind = Null
    /\ cw = NoClient
    /\ \/ Single_Client /\ pub = NoClient
       \/ Admin_Client /\ pub = NoClient
       \/ Page_Client /\ pub = NoClient
       \/ Public_Client

\* the steps of the renders in flight
Nav_Render ==
    \/ \E i \in 1..MaxFlight : AT_getBounds(i)
    \/ \E i \in 1..MaxFlight : AT_renderPlot(i)
    \/ \E i \in 1..MaxFlight : PP_loadBounds(i)
    \/ \E i \in 1..MaxFlight : PP_renderWindow(i)
    \/ \E i \in 1..MaxFlight : PP_loadSeries(i)
    \/ \E i \in 1..MaxFlight : PP_renderTail(i)
    \/ \E i \in 1..MaxFlight : PUB_request(i)
    \/ \E i \in 1..MaxFlight : PUB_loadSeries(i)
    \/ \E i \in 1..MaxFlight : PUB_store(i)
    \/ \E i \in 1..MaxFlight : PUB_loadBounds(i)

Nav_Back == ST_slideWindow(-1) \/ AT_btnBack \/ PP_back \/ PUB_btnBack

Nav_Fwd == ST_slideWindow(1) \/ AT_btnFwd \/ PP_fwd \/ PUB_btnFwd

Nav_Next == Nav_Render \/ ST_plotFromInputs \/ Nav_Back \/ Nav_Fwd

SpecNav == Nav_Init /\ [][Nav_Next]_vars /\ WF_vars(Nav_Render)

----------------------------------------------------------------------------
(* The y-axis planner.  Values and tick sizes are counted in units of      *)
(* 10^-7, one digit below the six decimal digits lcmFloat keeps.  A        *)
(* JavaScript number is a pair: <<"num", n>> for n units, <<"nan", 0>>,    *)
(* <<"inf", 0>> for Infinity.  The arithmetic is exact: the inputs are     *)
(* chosen so that every product and quotient the sources form is a whole   *)
(* number of units.                                                        *)

\* Math.min(6, ...) of lcmFloat and tickDecimals
MAX_DIGITS == 6

RECURSIVE Pow10(_)
Pow10(k) == IF k = 0 THEN 1 ELSE 10 * Pow10(k - 1)

\* units in 1.0
U == Pow10(MAX_DIGITS + 1)

Num(n) == <<"num", n>>
NaN == <<"nan", 0>>
Infinity == <<"inf", 0>>

\* Number.isFinite(x) && x > 0
FinitePositive(x) == x[1] = "num" /\ x[2] > 0

\* a configured min_tick_size as the meta carries it: null, the empty
\* string, a number (or a string that parses to it), the string "Infinity",
\* a string that parses to nothing
RawNull == <<"null", 0>>
RawEmpty == <<"empty", 0>>
RawText == <<"text", 0>>

\* Number(raw), raw not null
Number(raw) ==
    CASE raw[1] = "num" -> raw
      [] raw[1] = "inf" -> Infinity
      [] raw[1] = "empty" -> Num(0)
      [] OTHER -> NaN

\* Math.round(a / b) for b > 0: floor(a / b + 0.5)
RoundDiv(a, b) == (a + b \div 2) \div b

\* Math.ceil(a / b) for b > 0
CeilDiv(a, b) == -((-a) \div b)

\* Math.max(0, Math.min(6, Math.ceil(-Math.log10(d)))) for d > 0 units: the
\* least k with 10^-k <= d
RECURSIVE DecimalsFrom(_, _)
DecimalsFrom(k, d) ==
    IF k >= MAX_DIGITS \/ U \div Pow10(k) <= d THEN k ELSE DecimalsFrom(k + 1, d)

\* tickDecimals without Math.min(6, ...)
tickDecimalsUncapped(dtick) ==
    IF dtick = Null \/ ~FinitePositive(dtick) THEN 0
    ELSE LET k == DecimalsFrom(0, dtick[2])
         IN  IF U \div Pow10(k) <= dtick[2] THEN k ELSE k + 1

\* tickDecimals(dtick) of plot_core.js
tickDecimals(dtick) ==
    IF dtick = Null \/ ~FinitePositive(dtick) THEN 0 ELSE DecimalsFrom(0, dtick[2])

\* a y-axis of the layout: the keys the planner may set
NoAxis == [dtick |-> Null, tickmode |-> "auto", tick0 |-> Null,
           tickformat |-> Null, range |-> Null, tickvals |-> Null,
           ticktext |-> Null]

\* enforceLinearTicks(axis, dtick) of plot_core.js
enforceLinearTicks(axis, dtick) ==
    IF dtick = Null \/ ~FinitePositive(dtick) THEN axis
    ELSE LET d == dtick[2]
             t0 == IF axis.range # Null THEN (axis.range[1] \div d) * d ELSE 0
         IN  [axis EXCEPT !.tickmode = "linear", !.dtick = Some(dtick),
                          !.tick0 = Some(t0),
                          !.tickformat = Some(<<"f", tickDecimals(dtick)>>)]

\* applyAxisRangeAndTicks(axis, dtick, minVal, maxVal) of plot_page.js, for
\* finite minVal and maxVal
applyAxisRangeAndTicks(axis, dtick, minVal, maxVal) ==
    IF ~FinitePositive(dtick) THEN axis
    ELSE LET d == dtick[2]
             lo0 == IF minVal = maxVal THEN minVal - d ELSE minVal
             hi0 == IF minVal = maxVal THEN maxVal + d ELSE maxVal
             pad == (hi0 - lo0) \div 20
             lo1 == ((lo0 - pad) \div d) * d
             hi1 == CeilDiv(hi0 + pad, d) * d
             midTick == RoundDiv(hi1 + lo1, 2 * d) * d
             lo2 == IF hi1 - lo1 < 2 * d THEN midTick - d ELSE lo1
             hi2 == IF hi1 - lo1 < 2 * d THEN midTick + d ELSE hi1
         IN  enforceLinearTicks([axis EXCEPT !.range = <<lo2, hi2>>], dtick)

\* a tenth, in units: the values of the rows are whole tenths
Tenth == U \div 10

\* const maxShift = 1000 of plotFromInputs
maxShift == 1000

\* the dtick plotFromInputs of SingleTopicPlot takes from meta.min_tick_size
ST_dtick(raw) ==
    IF raw = RawNull \/ raw = RawEmpty THEN Null
    ELSE LET mts == Number(raw)
         IN  IF mts # NaN /\ (mts = Infinity \/ mts[2] > 0) THEN Some(mts)
             ELSE Null

\* Math.round(((minY + maxY) / 2) / dtick) * dtick
ST_midTick(minY, maxY, d) == RoundDiv(minY + maxY, 2 * d) * d

\* the condition of the shift loop
ST_outside(c) == c.minY < c.lo \/ c.maxY > c.hi

\* the yaxis plotFromInputs builds from dtick and yRange
ST_yaxis(dtick, yRange) ==
    IF dtick = Null THEN NoAxis
    ELSE LET dec == IF Val(dtick) = Infinity THEN 0 ELSE tickDecimals(Val(dtick))
         IN  [dtick |-> dtick, tickmode |-> "linear",
              tick0 |-> IF yRange # Null THEN Some(yRange[1]) ELSE Some(0),
              tickformat |-> Some(IF dec = 0 THEN <<"d", 0>> ELSE <<"f", dec>>),
              range |-> yRange, tickvals |-> Null, ticktext |-> Null]

\* Math.round(m * 39.3700787) for m tenths of a metre: the product is
\* formed in two parts, (393 * m) / 100 + (700787 * m) / 10^8
inchesTotal(m) ==
    LET A == 393 * m
        B == 700787 * m
    IN  A \div 100 + ((A % 100) * 1000000 + B + 50000000) \div 100000000

\* metersToFtIn with Math.trunc for Math.floor
metersToFtInTrunc(m) ==
    LET t == inchesTotal(m)
        feet == IF t >= 0 THEN t \div 12 ELSE -((-t) \div 12)
    IN  <<feet, t - feet * 12>>

\* metersToFtIn(m) for m tenths of a metre: feet and inches of the label
metersToFtIn(m) ==
    LET t == inchesTotal(m)
        feet == t \div 12
    IN  <<feet, t - feet * 12>>

\* const maxTicks = 200 of plotFromInputs
maxTicks == 200

\* [NaN, NaN]
NaNRange == <<"nan", "nan">>

\* the feet display of plotFromInputs: tick labels in feet and inches at the
\* positions start, start + dtick, ... up to end.  Without a yRange (dtick
\* Infinity) start and end are NaN and the loop adds no tick.
ST_ftin(yaxis, units, dtick, yRange) ==
    IF units # "distance_ftin" \/ dtick = Null THEN yaxis
    ELSE IF yRange = Null
         THEN [yaxis EXCEPT !.tickmode = "array", !.tickvals = Some(<<>>),
                            !.ticktext = Some(<<>>), !.range = NaNRange]
         ELSE LET d == Val(dtick)[2]
                  n == Min2(maxTicks, (yRange[2] - yRange[1] + d \div 2) \div d + 1)
                  tickvals == [i \in 1..n |-> yRange[1] + (i - 1) * d]
              IN  [yaxis EXCEPT !.tickmode = "array", !.tickvals = Some(tickvals),
                                !.ticktext = Some([i \in 1..n |->
                                                     metersToFtIn(tickvals[i] \div Tenth)]),
                                !.range = yRange]

(* SpecAxis: one y-axis is planned for rows with the values minY..maxY and *)
(* a configured min_tick_size raw, by plotFromInputs of SingleTopicPlot    *)
(* (its shift loop one iteration a step) or by render of the page.         *)

AxisValues == {-11, -10, 0, 4, 5, 10, 19, 23, 100, 694}

AxisTicks ==
    {RawNull, RawEmpty, RawText, <<"inf", 0>>, Num(0), Num(-U),
     Num(Tenth), Num(U), Num(15 * Tenth)}

Axis_Init ==
    /\ view = "axis"
    /\ cap = 0
    /\ samples = {}
    /\ now = 0
    /\ left = 0
    /\ st = NoClient /\ at = NoClient /\ pp = NoClient /\ pub = NoClient
    /\ fl = <<>>
    /\ hist = NoHist
    /\ ind = Null
    /\ \E raw \in AxisTicks, a \in AxisValues, b \in AxisValues,
          units \in {"distance_ftin", "other"} :
          /\ a <= b
          /\ cw = [pc |-> "start", by |-> "none", raw |-> raw, units |-> units,
                   trace |-> <<>>,
                   minY |-> a * Tenth, maxY |-> b * Tenth, dtick |-> Null,
                   lo |-> 0, hi |-> 0, i |-> 0, axis |-> NoAxis]

Axis_Frame == UNCHANGED <<view, samples, now, left, cap, st, at, pp, pub, fl, hist, ind>>

\* ST_yRange with a window of one interval above the midline
ST_yRangeOneInterval ==
    /\ view = "axis"
    /\ cw.pc = "start"
    /\ LET dtick == ST_dtick(cw.raw)
       IN  IF dtick = Null \/ Val(dtick) = Infinity
           THEN cw' = [cw EXCEPT !.pc = "done", !.by = "single", !.dtick = dtick,
                                 !.trace = <<cw.minY, cw.maxY>>,
                                 !.axis = ST_ftin(ST_yaxis(dtick, Null), cw.units,
                                                  dtick, Null)]
           ELSE LET d == Val(dtick)[2]
                    midTick == ST_midTick(cw.minY, cw.maxY, d)
                IN  cw' = [cw EXCEPT !.pc = "loop", !.by = "single",
                                     !.trace = <<cw.minY, cw.maxY>>,
                                     !.dtick = dtick, !.lo = midTick,
                                     !.hi = midTick + d]
    /\ Axis_Frame

\* plotFromInputs from the meta to the shift loop: without a dtick, or with
\* the midline NaN (dtick Infinity), it goes on to the yaxis at once
ST_yRange ==
    /\ view = "axis"
    /\ cw.pc = "start"
    /\ LET dtick == ST_dtick(cw.raw)
       IN  IF dtick = Null \/ Val(dtick) = Infinity
           THEN cw' = [cw EXCEPT !.pc = "done", !.by = "single", !.dtick = dtick,
                                 !.trace = <<cw.minY, cw.maxY>>,
                                 !.axis = ST_ftin(ST_yaxis(dtick, Null), cw.units,
                                                  dtick, Null)]
           ELSE LET d == Val(dtick)[2]
                    midTick == ST_midTick(cw.minY, cw.maxY, d)
                IN  cw' = [cw EXCEPT !.pc = "loop", !.by = "single",
                                     !.trace = <<cw.minY, cw.maxY>>,
                                     !.dtick = dtick, !.lo = midTick - d,
                                     !.hi = midTick + d]
    /\ Axis_Frame

\* one iteration of while ((minY < lo || maxY > hi) && i < maxShift)
ST_yRangeShift ==
    /\ view = "axis"
    /\ cw.pc = "loop"
    /\ ST_outside(cw) /\ cw.i < maxShift
    /\ LET d == Val(cw.dtick)[2]
       IN  cw' = IF cw.minY < cw.lo
                 THEN [cw EXCEPT !.lo = cw.lo - d, !.hi = cw.hi - d, !.i = cw.i + 1]
                 ELSE [cw EXCEPT !.lo = cw.lo + d, !.hi = cw.hi + d, !.i = cw.i + 1]
    /\ Axis_Frame

\* the loop has ended: the final guard and the yaxis
ST_yRangeDone ==
    /\ view = "axis"
    /\ cw.pc = "loop"
    /\ ~(ST_outside(cw) /\ cw.i < maxShift)
    /\ LET yRange == IF cw.hi > cw.lo THEN <<cw.lo, cw.hi>> ELSE Null
       IN  cw' = [cw EXCEPT !.pc = "done",
                            !.axis = ST_ftin(ST_yaxis(cw.dtick, yRange), cw.units,
                                             cw.dtick, yRange)]
    /\ Axis_Frame

\* gcdInt(a, b) of plot_core.js, for a, b >= 0
RECURSIVE gcdInt(_, _)
gcdInt(a, b) == IF b = 0 THEN a ELSE gcdInt(b, a % b)

\* lcmInt without the division by the greatest common divisor
lcmIntProduct(a, b) == IF a = 0 \/ b = 0 THEN 0 ELSE a * b

\* lcmInt(a, b) of plot_core.js, for a, b >= 0
lcmInt(a, b) == IF a = 0 \/ b = 0 THEN 0 ELSE (a \div gcdInt(a, b)) * b

\* the digits after the '.' of x.toString() for x > 0 units: a value below
\* 1e-6 is written in exponent form ("1e-7"), which has no '.'
RECURSIVE DigitsFrom(_, _)
DigitsFrom(k, x) ==
    IF x % (U \div Pow10(k)) = 0 THEN k ELSE DigitsFrom(k + 1, x)

Decimals(x) == IF x < 10 THEN 0 ELSE DigitsFrom(0, x)

\* lcmFloat(a, b) of plot_core.js
lcmFloat(a, b) ==
    IF ~FinitePositive(a) \/ ~FinitePositive(b) THEN Null
    ELSE LET d  == Min2(MAX_DIGITS, Max2(Decimals(a[2]), Decimals(b[2])))
             q  == U \div Pow10(d)
             ix == RoundDiv(a[2], q)
             iy == RoundDiv(b[2], q)
         IN  IF ix <= 0 \/ iy <= 0 THEN Null
             ELSE Some(Num(lcmInt(ix, iy) * q))

\* the loop of lcmFromSet over arr[i..]
RECURSIVE lcmLoop(_, _, _)
lcmLoop(out, arr, i) ==
    IF i > Len(arr) THEN out
    ELSE LET nxt == lcmFloat(out, arr[i])
         IN  IF nxt = Null THEN out ELSE lcmLoop(Val(nxt), arr, i + 1)

\* lcmFromSet(values) of plot_core.js, values in insertion order
lcmFromSet(values) ==
    LET arr == SelectSeq(values, FinitePositive)
    IN  IF Len(arr) = 0 THEN Null ELSE Some(lcmLoop(arr[1], arr, 2))

\* render of the page, from the meta to the y-axis of the layout: one topic
\* on the axis
PP_yaxis ==
    /\ view = "axis"
    /\ cw.pc = "start"
    /\ LET ticks == IF cw.raw = RawNull THEN <<>> ELSE <<Number(cw.raw)>>
           dtY   == lcmFromSet(ticks)
       IN  cw' = [cw EXCEPT !.pc = "done", !.by = "page", !.dtick = dtY,
                            !.trace = <<cw.minY, cw.maxY>>,
                            !.axis = IF dtY = Null THEN NoAxis
                                     ELSE applyAxisRangeAndTicks(NoAxis, Val(dtY),
                                                                 cw.minY, cw.maxY)]
    /\ Axis_Frame

Axis_Next == ST_yRange \/ ST_yRangeShift \/ ST_yRangeDone \/ PP_yaxis

SpecAxis == Axis_Init /\ [][Axis_Next]_vars

(* SpecTicks: one call of lcmFromSet on the tick sizes of the topics that  *)
(* share an axis, in the order the topics are listed, and the decimals     *)
(* enforceLinearTicks takes for the labels of the combined dtick.          *)

\* 1, 1.5, 2, 3, 4, 0.25, 0.000001, 0.0000001, and what is not a tick size
TickSizes ==
    {Num(U), Num(15 * Tenth), Num(2 * U), Num(3 * U), Num(4 * U),
     Num(U \div 4), Num(10), Num(1), Num(0), Num(-U), NaN, Infinity}

\* clampTopics: topics.slice(0, 2)
MaxTopics == 2

\* a JavaScript Set keeps each value once
TickSets ==
    {s \in UNION {[1..n -> TickSizes] : n \in 0..MaxTopics} :
        \A i, j \in 1..Len(s) : i # j => s[i] # s[j]}

Ticks_Init ==
    /\ view = "ticks"
    /\ cap = 0
    /\ samples = {}
    /\ now = 0
    /\ left = 0
    /\ st = NoClient /\ at = NoClient /\ pp = NoClient /\ pub = NoClient
    /\ fl = <<>>
    /\ hist = NoHist
    /\ ind = Null
    /\ \E s \in TickSets : cw = [done |-> FALSE, values |-> s, out |-> Null,
                                 dec |-> Null]

Ticks_Call ==
    /\ view = "ticks"
    /\ ~cw.done
    /\ LET dtY == lcmFromSet(cw.values)
       IN  cw' = [cw EXCEPT !.done = TRUE, !.out = dtY,
                            !.dec = IF dtY = Null THEN Null
                                    ELSE Some(tickDecimals(Val(dtY)))]
    /\ Axis_Frame

SpecTicks == Ticks_Init /\ [][Ticks_Call]_vars

(* SpecNearest: render of the page takes its span from the seconds of the *)
(* plot's spec: one call of nearestWindowIndex.                            *)

\* the spans asked for: the presets, the spans halfway between two presets,
\* a second more or less than each, and spans outside the presets
SpecSpans ==
    LET mids == {(W(i) + W(i + 1)) \div 2 : i \in 0..(LastIdx - 1)}
        near == Presets \cup mids
    IN  near \cup {m - 2 : m \in near} \cup {m + 2 : m \in near}
             \cup {0, 2, W(LastIdx) + W(0)}

Nearest_Init ==
    /\ view = "nearest"
    /\ cap = 0
    /\ samples = {}
    /\ now = 0
    /\ left = 0
    /\ st = NoClient /\ at = NoClient /\ pp = NoClient /\ pub = NoClient
    /\ fl = <<>>
    /\ hist = NoHist
    /\ ind = Null
    /\ \E ms \in SpecSpans : cw = [done |-> FALSE, ms |-> ms, idx |-> 0, spanMs |-> 0]

\* render: specMs and state.spanMs
Nearest_Call ==
    /\ view = "nearest"
    /\ ~cw.done
    /\ cw' = [cw EXCEPT !.done = TRUE, !.idx = nearestWindowIndex(cw.ms),
                        !.spanMs = PP_New(cw.ms).spanMs]
    /\ Axis_Frame

SpecNearest == Nearest_Init /\ [][Nearest_Call]_vars

----------------------------------------------------------------------------
(* SpecNormalize: one call of normalizeSpec (plot_unified.js) on a         *)
(* PlotSpec, and a second call on what the first returned.  A string is    *)
(* the sequence of its characters; a property that is missing, null or the *)
(* empty string is Null (the code tests all three with || or !), any other *)
(* value v of a property is Some(v).                                       *)

RECURSIVE trimStart(_)
trimStart(str) ==
    IF str # <<>> /\ Head(str) = " " THEN trimStart(Tail(str)) ELSE str

RECURSIVE trimEnd(_)
trimEnd(str) ==
    IF str # <<>> /\ str[Len(str)] = " "
    THEN trimEnd(SubSeq(str, 1, Len(str) - 1))
    ELSE str

\* String.prototype.trim
trim(str) == trimEnd(trimStart(str))

\* the object the map callback builds of topic t
cleanedTopic(t) ==
    [name |-> trim(t.name),
     label |-> trim(t.label),
     yAxis |-> IF t.yAxis = Some("y2") THEN Some("y2") ELSE Some("y"),
     mode |-> IF t.mode = Null THEN Some("lines") ELSE t.mode]

\* Array.prototype.filter with the test name.length > 0
RECURSIVE filterNamed(_)
filterNamed(ts) ==
    IF ts = <<>> THEN <<>>
    ELSE IF Len(Head(ts).name) > 0
         THEN <<Head(ts)>> \o filterNamed(Tail(ts))
         ELSE filterNamed(Tail(ts))

\* the default time window of 4 h, in seconds
defaultTime == [kind |-> Some("relative"), seconds |-> 4 * 60 * 60]

\* normalizeSpec without the fields of spec it copies as they are
normalizeSpec(spec) ==
    LET named == filterNamed([i \in 1..Len(spec.topics) |-> cleanedTopic(spec.topics[i])])
        sliced == SubSeq(named, 1, Min2(2, Len(named)))
        cleaned == IF Len(sliced) = 2 /\ sliced[1].yAxis = sliced[2].yAxis
                   THEN [sliced EXCEPT ![2].yAxis = Some("y2")]
                   ELSE sliced
        time == IF spec.time = Null THEN defaultTime ELSE Val(spec.time)
    IN  [topics |-> cleaned,
         time |-> Some(IF time.seconds = 0
                       THEN [time EXCEPT !.seconds = 4 * 60 * 60] ELSE time)]

\* the topics of the specs given: names with and without blanks, every
\* axis, and two topics with a label and a mode
SpecTopics ==
    [name : {<<>>, <<" ", "a">>, <<"b">>},
     label : {Null},
     yAxis : {Null, Some("y"), Some("y2"), Some("right")},
     mode : {Null}]
    \cup {[name |-> <<"b", " ">>, label |-> <<" ", "L">>, yAxis |-> Some("y"),
           mode |-> Some("markers")],
          [name |-> <<"a">>, label |-> <<" ">>, yAxis |-> Null, mode |-> Null]}

\* the longest topic list given
MaxGiven == 3

SpecTimes ==
    {Null, Some([kind |-> Null, seconds |-> 0]),
     Some([kind |-> Some("relative"), seconds |-> 3600])}

TopicLists(n) == UNION {[1..k -> SpecTopics] : k \in 0..n}

Normalize_Init ==
    /\ view = "normalize"
    /\ cap = 0
    /\ samples = {}
    /\ now = 0
    /\ left = 0
    /\ st = NoClient /\ at = NoClient /\ pp = NoClient /\ pub = NoClient
    /\ fl = <<>>
    /\ hist = NoHist
    /\ ind = Null
    /\ \E ts \in TopicLists(MaxGiven), tm \in SpecTimes :
          cw = [done |-> FALSE, spec |-> [topics |-> ts, time |-> tm],
                out |-> Null, again |-> Null]

Normalize_Call ==
    /\ view = "normalize"
    /\ ~cw.done
    /\ LET out == normalizeSpec(cw.spec)
       IN  cw' = [cw EXCEPT !.done = TRUE, !.out = Some(out),
                            !.again = Some(normalizeSpec(out))]
    /\ Axis_Frame

SpecNormalize == Normalize_Init /\ [][Normalize_Call]_vars

----------------------------------------------------------------------------
(* SpecClamp: one call of clampWindow on inputs from a small range *)

CwMax == 5

CwRange == 0..CwMax

CwInit ==
    /\ view = "none"
    /\ cap = 0
    /\ samples = {}
    /\ now = 0
    /\ left = 0
    /\ st = NoClient /\ at = NoClient /\ pp = NoClient /\ pub = NoClient
    /\ fl = <<>>
    /\ hist = NoHist
    /\ ind = Null
    /\ \E a \in CwRange, b \in CwRange, c \in CwRange, d \in CwRange :
          cw = [done |-> FALSE, start |-> a, end |-> b, min |-> c, max |-> d,
                s |-> 0, e |-> 0]

CwCall ==
    /\ ~cw.done
    /\ LET r == clampWindow(cw.start, cw.end, cw.min, cw.max)
       IN  cw' = [cw EXCEPT !.done = TRUE, !.s = r.start, !.e = r.end]
    /\ UNCHANGED <<view, samples, now, left, cap, st, at, pp, pub, fl, hist, ind>>

CwNext == CwCall

SpecClamp == CwInit /\ [][CwNext]_vars

\* C1: for start <= end and min <= max the window clampWindow returns lies in
\* [min, max], is ordered, and is as long as the shorter of the requested
\* window and the data range.
C1_ClampInvariant ==
    (cw.done /\ cw.start <= cw.end /\ cw.min <= cw.max) =>
        /\ cw.min <= cw.s /\ cw.s <= cw.e /\ cw.e <= cw.max
        /\ cw.e - cw.s = Min2(cw.end - cw.start, cw.max - cw.min)

\* a call that had to shift the window left to end at max
C1_Witness ==
    /\ cw.done /\ cw.start <= cw.end /\ cw.min <= cw.max
    /\ cw.end > cw.max /\ cw.max - cw.min > cw.end - cw.start
    /\ cw.e = cw.max /\ cw.s = cw.max - (cw.end - cw.start)

----------------------------------------------------------------------------
(* The window a view has stored, and whether the view is at rest on the    *)
(* data it was rendered from: no render in flight, and no sample, no       *)
(* other handler since the last render started.                            *)

AtRest == fl = <<>> /\ hist.clean

\* C2: with the data bounds known, the window the page has stored lies in
\* [min, max], and is as long as the selected span unless the data are
\* narrower than the span, when it is exactly [min, max].
C2_WindowWithinBounds ==
    (view = "page" /\ AtRest /\ pp.start # Null /\ pp.end # Null) =>
        LET b == ServerBounds
            s == Val(pp.start)
            e == Val(pp.end)
        IN  /\ b.min <= s /\ s <= e /\ e <= b.max
            /\ IF b.max - b.min < pp.spanMs
               THEN s = b.min /\ e = b.max
               ELSE e - s = pp.spanMs

\* the only render in flight finishes in this step, having run alone, for
\* the handler op
Finishes(op) == Len(fl) = 1 /\ fl' = <<>> /\ fl[1].op = op /\ fl[1].clean

\* C3: on data at least as wide as the span, a forward slide of the page
\* whose shifted end is at or past the newest sample leaves end at the
\* newest sample, start one span before it, and followTail true.
C3_ForwardReachesTail ==
    [][(view = "page" /\ Finishes("fwd")
        /\ ServerBounds.max - ServerBounds.min >= pp.spanMs
        /\ Val(Val(fl[1].pre).end) + HalfSpan(pp.spanMs) >= ServerBounds.max)
       => /\ pp'.end = Some(ServerBounds.max)
          /\ pp'.start = Some(ServerBounds.max - pp.spanMs)
          /\ pp'.followTail]_vars

\* C4: a forward slide of the public plot from a window that ends at the
\* newest sample, with the samples unchanged, leaves start and end as they
\* were and followTail true.
C4_ForwardIdempotent ==
    [][(view = "public" /\ Finishes("fwd")
        /\ Val(fl[1].pre).end = Some(ServerBounds.max))
       => /\ pub'.start = Val(fl[1].pre).start
          /\ pub'.end = Val(fl[1].pre).end
          /\ pub'.followTail]_vars

\* the newest sample a view of SingleTopicPlot or MultiTopicPlotPreview
\* knows of
KnownTail(p) == IF view = "multi" THEN Val(p.overallMax) ELSE Val(p.b).max

\* the window of state p ends within 5 s of the newest sample p knows of
PinnedToTail(p) ==
    /\ p.topic /\ p.b # Null /\ p.start # Null /\ p.end # Null
    /\ Abs(KnownTail(p) - Val(p.end)) <= TOL

\* C5: in SingleTopicPlot and MultiTopicPlotPreview, a message newer than
\* the end of a window that is pinned to the tail and at least 1 s long
\* moves the end to the new tail and keeps the window's length.
C5_TailFollowKeepsLength ==
    (view \in {"single", "multi"} /\ hist.op = "live" /\ PinnedToTail(hist.pre)
     /\ hist.ts > Val(hist.pre.end)
     /\ Val(hist.pre.end) - Val(hist.pre.start) >= MIN_WINDOW_MS)
    => /\ st.end = Some(KnownTail(st))
       /\ Val(st.end) - Val(st.start) = Val(hist.pre.end) - Val(hist.pre.start)

C5_Witness ==
    /\ view \in {"single", "multi"} /\ hist.op = "live" /\ PinnedToTail(hist.pre)
    /\ hist.ts > Val(hist.pre.end)
    /\ Val(hist.pre.end) - Val(hist.pre.start) = W(0)
    /\ st.end = Some(hist.ts)
    /\ st.start = Some(hist.ts - W(0))

\* C5 as stated: the length is kept whatever it was.
C5_TailFollowAnyLength ==
    (view \in {"single", "multi"} /\ hist.op = "live" /\ PinnedToTail(hist.pre)
     /\ hist.ts > Val(hist.pre.end))
    => /\ st.end = Some(KnownTail(st))
       /\ Val(st.end) - Val(st.start) = Val(hist.pre.end) - Val(hist.pre.start)

\* the page is not following, or is at rest with its window's end more than
\* 5 s from the newest sample
PP_Away ==
    \/ ~pp.followTail
    \/ /\ AtRest /\ pp.end # Null
       /\ Abs(ServerBounds.max - Val(pp.end)) > TOL

\* C6: a new-sample event (a socket message, the poll of the page) leaves
\* start, end and followTail as they were, and starts no render, whenever
\* followTail is false or the view is at rest with its window's end more
\* than 5 s from the newest sample it knew of.
C6_HistoryNotRelocated ==
    [][/\ (view \in {"single", "multi"} /\ samples' # samples
           /\ st.topic /\ st.b # Null /\ st.end # Null
           /\ Abs(KnownTail(st) - Val(st.end)) > TOL)
          => (st'.start = st.start /\ st'.end = st.end)
       /\ (view = "admin" /\ samples' # samples
           /\ (\/ ~at.followTail
               \/ /\ fl = <<>> /\ at.end # Null /\ at.tail # Null
                  /\ Abs(Val(at.tail) - Val(at.end)) > TOL))
          => (at' = at /\ Len(fl') = Len(fl))
       /\ (view = "page" /\ samples' # samples /\ PP_Away)
          => (pp' = pp /\ Len(fl') = Len(fl))
       /\ (view = "page" /\ Len(fl') > Len(fl) /\ fl'[Len(fl')].op = "poll")
          => ~PP_Away]_vars

\* a sample newer than the admin window's tail has arrived while the window
\* was away from the tail, and the window has stayed
C6_Witness ==
    /\ view = "admin" /\ fl = <<>> /\ hist.op = "back" /\ ~hist.clean
    /\ ~at.followTail
    /\ at.tail # Null /\ at.end # Null
    /\ ServerBounds.max > Val(at.tail)
    /\ Val(at.end) < Val(at.tail)

\* the preset SingleTopicPlot and MultiTopicPlotPreview take a window of
\* state p to have selected: the one nearest to its length
ST_selected(p) == W(nearestWindowIndex(Val(p.end) - Val(p.start)))

\* this step starts the render of a zoom button (or one that overlaps
\* another render)
ZoomStarts ==
    /\ Len(fl') = Len(fl) + 1
    /\ fl'[Len(fl')].op \in {"zoomIn", "zoomOut", "overlapped"}

Centre(p) == (Val(p.start) + Val(p.end)) \div 2

\* the window of length span about centre c lies within the data
Unclamped(c, span) ==
    /\ ServerBounds.min <= c - span \div 2
    /\ c + span \div 2 <= ServerBounds.max

\* the window of state p is as long as the span p has selected
FullLength(p) ==
    p.start # Null /\ p.end # Null /\ Val(p.end) - Val(p.start) = p.spanMs

\* C8: in the admin topic window, a zoom from a window as long as its span
\* that is not clamped leaves the window of the new span about the centre
\* of the window it found, and so zoomIn followed by zoomOut returns to the
\* original centre.
C8_ZoomKeepsCentre ==
    [][/\ (view = "admin" /\ (Finishes("zoomIn") \/ Finishes("zoomOut"))
           /\ FullLength(Val(fl[1].pre))
           /\ Unclamped(Centre(Val(fl[1].pre)), at.spanMs))
          => /\ at'.start = Some(Centre(Val(fl[1].pre)) - at.spanMs \div 2)
             /\ at'.end = Some(Centre(Val(fl[1].pre)) + at.spanMs \div 2)
       /\ (view = "admin" /\ Finishes("zoomOut") /\ fl[1].zin # Null
           /\ FullLength(Val(fl[1].zin))
           /\ Unclamped(Centre(Val(fl[1].zin)), Val(fl[1].pre).spanMs)
           /\ Unclamped(Centre(Val(fl[1].zin)), at.spanMs))
          => Centre(at') = Centre(Val(fl[1].zin))]_vars

\* the length of the window of state p
Width(p) == Val(p.end) - Val(p.start)

\* this step starts the render of handler op
Starts(op) == Len(fl') = Len(fl) + 1 /\ fl'[Len(fl')].op = op

\* the preset one step from spanMs in direction dir, the first and last
\* presets staying
Step(spanMs, dir) ==
    W(Max2(0, Min2(LastIdx, nearestWindowIndex(spanMs) + dir)))

\* the client state of the page, but for the wiring of its controls
PP_Window(p) == [spanMs |-> p.spanMs, start |-> p.start, end |-> p.end,
                 followTail |-> p.followTail]

\* what C9 says of a zoom of SingleTopicPlot or MultiTopicPlotPreview in
\* direction dir: the new window is as long as the next preset (or as the
\* data, when narrower), and the window stays at the first or last preset
ST_ZoomSteps(dir) ==
    /\ Width(st') = Min2(Step(Width(st), dir), Val(st.b).max - Val(st.b).min)
    /\ Step(Width(st), dir) = W(nearestWindowIndex(Width(st)))
       => (st'.start = st.start /\ st'.end = st.end)

\* C9 for the admin topic window and for the page, where held says
\* whether the page is taken to be at rest
AsyncZoomSteps(held) ==
    /\ (view = "admin" /\ Starts("zoomIn"))
       => (at.spanMs # W(0) /\ at'.spanMs = Step(at.spanMs, -1))
    /\ (view = "admin" /\ Starts("zoomOut"))
       => (at.spanMs # W(LastIdx) /\ at'.spanMs = Step(at.spanMs, 1))
    /\ (view = "page" /\ Starts("zoomIn")) => pp'.spanMs = Step(pp.spanMs, -1)
    /\ (view = "page" /\ Starts("zoomOut")) => pp'.spanMs = Step(pp.spanMs, 1)
    /\ (view = "page" /\ Finishes("zoomIn") /\ held
        /\ Val(fl[1].pre).spanMs = W(0))
       => PP_Window(pp') = PP_Window(Val(fl[1].pre))
    /\ (view = "page" /\ Finishes("zoomOut") /\ held
        /\ Val(fl[1].pre).spanMs = W(LastIdx))
       => PP_Window(pp') = PP_Window(Val(fl[1].pre))

C10_BackAtEarliest ==
    [][(view = "admin" /\ Finishes("back")
        /\ Val(fl[1].pre).start # Null /\ Val(fl[1].pre).end # Null
        /\ (\/ ServerBounds.max - ServerBounds.min <= at.spanMs
            \/ Val(fl[1].pre).start = Some(ServerBounds.min)))
       => /\ at'.start = Val(fl[1].pre).start
          /\ at'.end = Val(fl[1].pre).end
          /\ at'.followTail = Val(fl[1].pre).followTail]_vars

----------------------------------------------------------------------------
(* Views without data bounds *)

\* the operations of the four navigation buttons
NavOps == {"zoomIn", "zoomOut", "back", "fwd"}

\* C11: while the topic has no samples, so that no bounds are available,
\* a click on Zoom In, Zoom Out, Back or Forward leaves span, start, end and
\* followTail of the admin topic window as they were, and leaves the window
\* of SingleTopicPlot and MultiTopicPlotPreview as it was.
C11_NavNoOpWithoutBounds ==
    [][/\ (view = "admin" /\ fl = <<>> /\ samples = {} /\ samples' = {})
          => at' = at
       /\ (view \in {"single", "multi"} /\ samples = {} /\ samples' = {}
           /\ hist'.op \in NavOps)
          => (st'.start = st.start /\ st'.end = st.end)]_vars

\* the window initialize is to leave on bounds b: the default preset ending
\* at the newest sample, clamped
DefaultWindow(b) == clampWindow(b.max - W(1), b.max, b.min, b.max)

\* C12: the first render of the admin topic window, and of the page when
\* its spec asks for no other span, on known bounds selects the preset of
\* index 1 (4 h), follows the tail, and leaves the window
\* clamp(max - 4 h, max): end = max and start = max - 4 h where the data
\* are wider than 4 h.
C12_InitialWindow ==
    [][/\ (view = "admin" /\ Finishes("init") /\ fl[1].b # Null)
          => /\ at'.spanMs = W(1) /\ at'.followTail
             /\ at'.start = Some(DefaultWindow(Val(fl[1].b)).start)
             /\ at'.end = Some(DefaultWindow(Val(fl[1].b)).end)
       /\ (view = "page" /\ Finishes("init") /\ fl[1].b # Null
           /\ Val(fl[1].pre).spanMs = W(1))
          => /\ pp'.spanMs = W(1) /\ pp'.followTail
             /\ pp'.start = Some(DefaultWindow(Val(fl[1].b)).start)
             /\ pp'.end = Some(DefaultWindow(Val(fl[1].b)).end)]_vars

\* C13: a first plot without data bounds leaves no window (start and end
\* null), and in SingleTopicPlot and MultiTopicPlotPreview the four
\* navigation buttons disabled.
C13_NoDataState ==
    [][/\ (view \in {"single", "multi"} /\ samples = {} /\ hist'.op = "plot")
          => (st'.start = Null /\ st'.end = Null /\ st'.nav = Some(FALSE))
       /\ (view = "page" /\ Finishes("init") /\ fl[1].b = Null)
          => (pp'.start = Null /\ pp'.end = Null)]_vars

----------------------------------------------------------------------------
(* The Live indicator *)

\* isLive of the page: it follows and its window ends within 5 s of the
\* newest sample
PP_isLive ==
    /\ pp.followTail /\ pp.end # Null /\ samples # {}
    /\ Abs(ServerBounds.max - Val(pp.end)) <= TOL

\* C14: with no render in flight (after every navigation operation and
\* every completed render) the indicator shows live exactly when followTail
\* is true and the window ends within 5 s of the tail: in the admin topic
\* window once a render has finished, on the page once its controls are
\* wired and no sample has arrived since its last render.
C14_LiveIndicator ==
    /\ (view = "admin" /\ ind # Null /\ fl = <<>> /\ hist.op # "none")
       => ind = Shown(AT_isLive(at))
    /\ (view = "page" /\ ind # Null /\ AtRest /\ pp.wired)
       => ind = Shown(PP_isLive)

----------------------------------------------------------------------------
(* The y-axis planner                                                      *)

\* the planned axis has a range, and the tick size d was enforced
Planned == cw.pc = "done" /\ cw.dtick # Null /\ FinitePositive(Val(cw.dtick))

FlatData == cw.minY = cw.maxY

\* C15: for a tick size d > 0 and flat data (all values v) the planned range
\* [lo, hi] has lo <= v <= hi, both ends multiples of d, and at least two
\* intervals: hi - lo >= 2 * d; SingleTopicPlot plans exactly two,
\* hi - lo = 2 * d.
C15_TwoIntervals ==
    (view = "axis" /\ Planned /\ FlatData) =>
        LET d == Val(cw.dtick)[2]
            r == cw.axis.range
        IN  /\ r # Null
            /\ r[1] <= cw.minY /\ cw.minY <= r[2]
            /\ r[1] % d = 0 /\ r[2] % d = 0
            /\ r[2] - r[1] >= 2 * d
            /\ cw.by = "single" => r[2] - r[1] = 2 * d

\* tick size 1, all values 69.4: SingleTopicPlot plans [68, 70]
C15_Witness ==
    /\ view = "axis" /\ Planned /\ FlatData
    /\ cw.by = "single"
    /\ cw.minY = 694 * Tenth
    /\ cw.dtick = Some(Num(U))
    /\ cw.axis.range = <<68 * U, 70 * U>>

\* C15 as stated: the range is exactly two intervals wide in every view
C15_ExactlyTwoIntervals ==
    (view = "axis" /\ Planned /\ FlatData) =>
        LET d == Val(cw.dtick)[2]
            r == cw.axis.range
        IN  /\ r # Null
            /\ r[1] <= cw.minY /\ cw.minY <= r[2]
            /\ r[2] - r[1] = 2 * d

\* the shift loop of SingleTopicPlot has ended
LoopEnded == cw.pc = "done" /\ cw.by = "single" /\ Planned

\* C16: for a tick size d > 0 and values minY <= maxY the shift loop ends
\* with a window [lo, hi] that contains minY and maxY, whose ends are
\* multiples of d, and which is still 2 * d wide.
C16_ShiftCovers ==
    (view = "axis" /\ LoopEnded) =>
        LET d == Val(cw.dtick)[2]
        IN  /\ cw.lo <= cw.minY /\ cw.maxY <= cw.hi
            /\ cw.lo % d = 0 /\ cw.hi % d = 0
            /\ cw.hi - cw.lo = 2 * d
            /\ cw.axis.range = <<cw.lo, cw.hi>>

\* the tick sizes of a finished lcmFromSet call, as a set of unit counts
TickUnits == {cw.values[i][2] : i \in 1..Len(cw.values)}

\* every tick size is positive and has at most six decimal digits
SixDigitTicks ==
    /\ cw.values # <<>>
    /\ \A i \in 1..Len(cw.values) :
          FinitePositive(cw.values[i]) /\ cw.values[i][2] % 10 = 0

CommonMultiple(r) == r > 0 /\ \A t \in TickUnits : r % t = 0

\* the largest element of a non-empty set of numbers
Largest(S) == CHOOSE x \in S : \A y \in S : y <= x

\* C17: for tick sizes that are positive with at most six decimal digits the
\* combined dtick is their least common multiple: a multiple of each, and
\* no smaller positive value is (a common multiple is a multiple of the
\* largest tick size); {1, 1.5} gives 3 and {2, 4} gives 4.
C17_LeastCommonMultiple ==
    (view = "ticks" /\ cw.done /\ SixDigitTicks) =>
        /\ cw.out # Null
        /\ Val(cw.out)[1] = "num"
        /\ LET r == Val(cw.out)[2]
               m == Largest(TickUnits)
           IN  /\ CommonMultiple(r)
               /\ \A k \in 1..(r \div m) : CommonMultiple(k * m) => k * m = r
        /\ cw.values = <<Num(U), Num(15 * Tenth)>> => cw.out = Some(Num(3 * U))
        /\ cw.values = <<Num(2 * U), Num(4 * U)>> => cw.out = Some(Num(4 * U))

\* 1.5 and 4 on one axis: dtick 12
C17_Witness ==
    /\ view = "ticks" /\ cw.done /\ SixDigitTicks
    /\ cw.values = <<Num(15 * Tenth), Num(4 * U)>>
    /\ cw.out = Some(Num(12 * U))

\* the tick sizes lcmFromSet keeps: finite and positive
ValidTicks == SelectSeq(cw.values, FinitePositive)

\* some lcmFloat call of the loop over arr returns null
Degenerate(arr) ==
    \E i \in 2..Len(arr) :
        lcmFloat(lcmLoop(arr[1], SubSeq(arr, 1, i - 1), 2), arr[i]) = Null

\* the smallest element of a non-empty set of numbers
Smallest(S) == CHOOSE x \in S : \A y \in S : x <= y

\* C18: without a valid tick size (the empty set included) lcmFromSet
\* returns null; tick sizes that are <= 0 or not finite are skipped; and
\* when the computation over the valid ones is degenerate the result is the
\* smallest valid tick size.
C18_Fallback ==
    (view = "ticks" /\ cw.done) =>
        /\ ValidTicks = <<>> <=> cw.out = Null
        /\ cw.out = lcmFromSet(ValidTicks)
        /\ (ValidTicks # <<>> /\ Degenerate(ValidTicks)) =>
              cw.out = Some(Num(Smallest({ValidTicks[i][2] :
                                             i \in 1..Len(ValidTicks)})))

\* a configured min_tick_size that is not a finite positive number
NoTickSize ==
    cw.raw # RawNull /\ cw.raw # RawEmpty /\ ~FinitePositive(Number(cw.raw))

\* C19: a configured min_tick_size that is non-positive, not finite or
\* unparseable leaves the y-axis as without one: no dtick, tickmode, tick0,
\* tickformat or range is set.
C19_BadTickSizeAbsent ==
    (view = "axis" /\ cw.pc = "done" /\ NoTickSize) => cw.axis = NoAxis

----------------------------------------------------------------------------
(* Back and Forward                                                        *)

\* this step ends the render a Back or Forward handler started, and the
\* handler and its render have run alone
SlideEnds(v, op) ==
    /\ view = v /\ samples # {}
    /\ Len(fl) = 1 /\ fl' = <<>>
    /\ fl[1].op = op /\ fl[1].clean /\ fl[1].pre # Null
    /\ Val(fl[1].pre).start # Null /\ Val(fl[1].pre).end # Null

\* the window of state p moved by sign times its span
Slid(p, sign) ==
    [start |-> Val(p.start) + sign * p.spanMs,
     end |-> Val(p.end) + sign * p.spanMs]

\* the data bounds leave the window w where it is
InBounds(w) == ServerBounds.min <= w.start /\ w.end <= ServerBounds.max

SlidBy(v, op, sign, p2) ==
    (SlideEnds(v, op) /\ InBounds(Slid(Val(fl[1].pre), sign)) /\ ~p2.followTail) =>
        /\ p2.start = Some(Slid(Val(fl[1].pre), sign).start)
        /\ p2.end = Some(Slid(Val(fl[1].pre), sign).end)

\* C20: Back and Forward, in the admin topic window and on the page, move
\* start and end by one full span of the window when the data bounds leave
\* the moved window where it is and Forward has not pinned it to the tail.
C20_SlideFullSpan ==
    [][/\ SlidBy("admin", "back", -1, at') /\ SlidBy("admin", "fwd", 1, at')
       /\ SlidBy("page", "back", -1, pp') /\ SlidBy("page", "fwd", 1, pp')]_vars

----------------------------------------------------------------------------
(* Tick labels                                                             *)

\* the page has enforced a combined dtick
TicksEnforced == view = "ticks" /\ cw.done /\ cw.out # Null

\* C21: the decimals of the tick labels are max(0, min(6, ceil(-log10(d))))
\* for the tick size d: between 0 and 6, 0 for d >= 1, and otherwise the
\* least k with 10^-k <= d, or 6 when that k is larger.
C21_TickDecimals ==
    TicksEnforced =>
        LET d   == Val(cw.out)[2]
            dec == Val(cw.dec)
        IN  /\ dec \in 0..MAX_DIGITS
            /\ d >= U => dec = 0
            /\ dec < MAX_DIGITS => d * Pow10(dec) >= U
            /\ dec > 0 => d * Pow10(dec - 1) < U

\* tick size 0.0000001: six decimals
C21_Witness ==
    /\ TicksEnforced
    /\ cw.out = Some(Num(1))
    /\ cw.dec = Some(MAX_DIGITS)

\* C30: for a tick size d with at most six decimal digits the decimals
\* chosen for the labels print every multiple of d exactly: d is a whole
\* number of units of the last printed digit (and so is every k * d); with
\* 0 decimals d is an integer.
C30_LabelsExact ==
    (TicksEnforced /\ Val(cw.out)[2] % 10 = 0) =>
        Val(cw.out)[2] % (U \div Pow10(Val(cw.dec))) = 0

\* SingleTopicPlot has planned the axis of a topic shown in feet and inches
FeetShown ==
    /\ view = "axis" /\ LoopEnded
    /\ cw.units = "distance_ftin"

\* C22: with units distance_ftin the plotted values, the range and the tick
\* positions are the metre values the axis has without the feet display
\* (the range of the planner, a tick at every multiple of dtick in it), and
\* each label is feet and inches with 0 <= inches <= 11 and
\* 12 * feet + inches = round(metres * 39.3700787).
C22_FeetPresentationOnly ==
    FeetShown =>
        LET d     == Val(cw.dtick)[2]
            plain == ST_yaxis(cw.dtick, <<cw.lo, cw.hi>>)
            vals  == Val(cw.axis.tickvals)
            text  == Val(cw.axis.ticktext)
        IN  /\ cw.trace = <<cw.minY, cw.maxY>>
            /\ cw.axis.range = plain.range
            /\ cw.axis.dtick = plain.dtick
            /\ {vals[i] : i \in 1..Len(vals)} =
                  {v \in {Val(plain.tick0) + k * d : k \in 0..2} :
                      plain.range[1] <= v /\ v <= plain.range[2]}
            /\ Len(text) = Len(vals)
            /\ \A i \in 1..Len(vals) :
                  /\ 0 <= text[i][2] /\ text[i][2] <= 11
                  /\ 12 * text[i][1] + text[i][2] = inchesTotal(vals[i] \div Tenth)

\* all values -1.1 m, tick size 0.1 m: ticks at -1.2, -1.1 and -1.0 m,
\* labelled -4' 1", -4' 5" and -4' 9"
C22_Witness ==
    /\ FeetShown
    /\ cw.minY = -11 * Tenth /\ cw.maxY = -11 * Tenth
    /\ cw.dtick = Some(Num(Tenth))
    /\ cw.axis.tickvals = Some(<<-12 * Tenth, -11 * Tenth, -10 * Tenth>>)
    /\ cw.axis.ticktext = Some(<< <<-4, 1>>, <<-4, 5>>, <<-4, 9>> >>)

----------------------------------------------------------------------------
(* The nearest preset                                                      *)

\* C23: nearestWindowIndex(ms) is an index whose preset is as near to ms as
\* any preset, and the smaller index when two presets are equally near; a
\* span asked for in seconds becomes the preset at that index.
C23_NearestPreset ==
    (view = "nearest" /\ cw.done) =>
        /\ cw.idx \in 0..LastIdx
        /\ \A j \in 0..LastIdx :
              /\ Abs(W(cw.idx) - cw.ms) <= Abs(W(j) - cw.ms)
              /\ Abs(W(cw.idx) - cw.ms) = Abs(W(j) - cw.ms) => cw.idx <= j
        /\ cw.ms > 0 => cw.spanMs = W(cw.idx)

\* 3 h, between 2 h and 4 h: the 2 h preset
C23_Witness ==
    /\ view = "nearest" /\ cw.done
    /\ cw.ms = 3 * H
    /\ cw.idx = 0 /\ cw.spanMs = 2 * H

----------------------------------------------------------------------------
(* Renders that overlap                                                    *)

\* the window render computes for the state p of the page from the answer
\* b of loadBounds
PP_windowOf(p, b) ==
    LET latest == IF b # Null THEN Val(b).max ELSE now
        end0 == IF p.followTail THEN latest
                ELSE IF p.end # Null THEN Val(p.end) ELSE latest
        end1 == IF end0 > latest THEN latest ELSE end0
        start1 == end1 - p.spanMs
        low == b # Null /\ start1 < Val(b).min
        start2 == IF low THEN Val(b).min ELSE start1
        end2 == IF low THEN Min2(start2 + p.spanMs, latest) ELSE end1
    IN  [start |-> start2, end |-> end2]

\* this step is the end of the last render in flight on the page: it draws
\* the traces it has loaded
PP_lastDraws == view = "page" /\ Len(fl) = 1 /\ fl[1].ph = 4 /\ fl' = <<>>

\* C24: on the page, when the last of the renders in flight ends, the
\* traces it draws are those of the window asked for last: the window
\* render computes for the state the handlers have left, from the bounds
\* this render was answered.
C24_StaleRenderDiscarded ==
    [][PP_lastDraws =>
          [start |-> fl[1].start, end |-> fl[1].end] = PP_windowOf(pp', fl[1].b)]_vars

\* this step is a click handler of the admin topic window that has written
\* the state: renderPlot writes it only as it ends, a socket handler
\* only as a sample arrives
AT_clickWrites ==
    /\ view = "admin"
    /\ samples' = samples
    /\ Len(fl') >= Len(fl)
    /\ at' # at

\* C25: in the admin topic window, once the first render has ended, a
\* Back, Forward, Zoom In or Zoom Out click finds state.start and state.end
\* non-null, also while the render of a live update is awaiting its answers.
C25_NavReadsWindow ==
    [][(AT_clickWrites /\ hist.op # "none") =>
          (at.start # Null /\ at.end # Null)]_vars

----------------------------------------------------------------------------
(* Back and Forward to the ends of the data                                *)

\* the window the view has stored, as a record with end and followTail
Nav_Window ==
    CASE view = "admin" -> at
      [] view = "page" -> pp
      [] view = "public" -> pub
      [] OTHER -> [start |-> st.start, end |-> st.end, followTail |-> FALSE]

\* the view is back at the tail and following it
Nav_Live ==
    /\ Nav_Window.end = Some(ServerBounds.max)
    /\ Nav_Window.followTail

\* C26: in the admin topic window, on the page and on the public plot, with
\* data that do not change, a user who from some point on clicks nothing
\* but Forward, again and again, gets (wherever Back had left the window)
\* to a window that ends at the newest sample with followTail true; and no
\* window at rest ends after the newest sample.
C26_ForwardReachesLive ==
    /\ (/\ view \in {"admin", "page", "public"}
        /\ []<><<Nav_Fwd>>_vars
        /\ <>[][Nav_Fwd \/ Nav_Render]_vars)
       => []<>Nav_Live
    /\ [](fl = <<>> /\ Nav_Window.end # Null
          => Val(Nav_Window.end) <= ServerBounds.max)

\* the span Back moves the window by
Nav_Span ==
    CASE view = "admin" -> at.spanMs
      [] view = "page" -> pp.spanMs
      [] view = "public" -> PUB_span
      [] OTHER -> IF st.start # Null /\ st.end # Null
                  THEN Val(st.end) - Val(st.start)
                  ELSE ServerBounds.max - ServerBounds.min

Nav_Wider == ServerBounds.max - ServerBounds.min > Nav_Span

\* the stored window starts at the earliest sample
Nav_AtStart == Nav_Window.start = Some(ServerBounds.min)

\* a Back handler that returns without starting a render: what is drawn
\* stays as it was
Nav_BackNoRender ==
    /\ view \in {"page", "public"}
    /\ Nav_Back
    /\ Len(fl') <= Len(fl)

\* C27: with data that do not change and span more than the window, a user
\* who from some point on clicks nothing but Back, and clicks it whenever it
\* would still do something, gets to a window that starts at the earliest
\* sample; and a Back that draws nothing leaves the stored start and end as
\* they were.
C27_BackReachesStart ==
    /\ (/\ SF_vars(Nav_Back)
        /\ <>[][Nav_Back \/ Nav_Render]_vars
        /\ <>[]Nav_Wider)
       => []<>Nav_AtStart
    /\ [][Nav_BackNoRender =>
            /\ Nav_Window'.start = Nav_Window.start
            /\ Nav_Window'.end = Nav_Window.end]_vars

----------------------------------------------------------------------------
(* The zoom controls                                                       *)

\* the selected span of the admin window a and the public plot p
Zoom_span(a, p) ==
    IF view = "admin" THEN a.spanMs
    ELSE IF p.spanMs = Null THEN W(1) ELSE Val(p.spanMs)

\* a render runs to its end: the admin window's with rows, the public
\* plot's always
Zoom_Completes ==
    \/ /\ view = "admin"
       /\ \E i \in 1..Len(fl) :
             AT_draw(i) /\ Rows(fl[i].start, fl[i].end) # {}
    \/ /\ view = "public"
       /\ \E i \in 1..Len(fl) : PUB_store(i)

\* a click on a zoom button that is not disabled, with no render in flight
Zoom_Click(in) ==
    /\ fl = <<>>
    /\ IF in THEN (AT_btnZoomIn \/ PUB_btnZoomIn) /\ ~cw.zinDisabled
             ELSE (AT_btnZoomOut \/ PUB_btnZoomOut) /\ ~cw.zoutDisabled

----------------------------------------------------------------------------
(* normalizeSpec                                                           *)

\* C29: normalizeSpec returns at most two topics, each with a name that is
\* not empty and with yAxis y or y2; two topics returned are on different
\* axes; and normalizeSpec of what it returned is what it returned.
C29_NormalizeSpec ==
    (view = "normalize" /\ cw.done) =>
        LET ts == Val(cw.out).topics
        IN  /\ Len(ts) <= 2
            /\ \A i \in 1..Len(ts) :
                  /\ ts[i].name # <<>>
                  /\ ts[i].yAxis \in {Some("y"), Some("y2")}
            /\ Len(ts) = 2 => ts[1].yAxis # ts[2].yAxis
            /\ cw.again = cw.out

====
